---- MODULE Spec2Model ----
(***************************************************************************)
(* The colorspace filter of libavfilter (vf_colorspace.c): the per-frame   *)
(* configuration (create_filtergraph), the frame handler (filter_frame)    *)
(* and the slice jobs (convert, convert_f16, convert_f32).                 *)
(*                                                                         *)
(* The filter's private context is the record s; a pointer is either NULL  *)
(* or the record it points to; a coefficient table is represented by the   *)
(* arguments it was computed from (the table is a function of them).       *)
(***************************************************************************)
EXTENDS Integers, Sequences, FiniteSets, TLC

VARIABLES s, link, in_frame, out_frame, ret, exec, jobs, warnings

vars == <<s, link, in_frame, out_frame, ret, exec, jobs, warnings>>

(***************************************************************************)
(* Bounds of the model.                                                    *)
(***************************************************************************)
\* at most this many options are given on the filter's command line
MaxUserOptions == 2
\* the host's thread pool has 1..MaxThreads workers
MaxThreads == 2
\* frames are 2, 4, .., 2*MaxHalfHeight luma rows high
MaxHalfHeight == 2
\* where the size of the frames varies: they are 2, 4, .., 2*MaxHalfRows luma
\* rows high and the thread pool has 1..MaxWorkers workers
MaxHalfRows == 4
MaxWorkers == 4
\* the converters of libswscale run on images of at most this many pixels
\* a row and this many rows
MaxWidth == 2
MaxSliceH == 2

(***************************************************************************)
(* Enumerations.                                                           *)
(***************************************************************************)
DITHER_NONE == 0
DITHER_FSB == 1

CS_UNSPECIFIED == 0
CS_BT470M == 1
CS_BT470BG == 2
CS_BT601_6_525 == 3
CS_BT601_6_625 == 4
CS_BT709 == 5
CS_SMPTE170M == 6
CS_SMPTE240M == 7
CS_BT2020 == 8
CS_NB == 9

WP_ADAPT_BRADFORD == 0
WP_ADAPT_VON_KRIES == 1
NB_WP_ADAPT_NON_IDENTITY == 2
WP_ADAPT_IDENTITY == 2

AVCOL_PRI_RESERVED0 == 0
AVCOL_PRI_BT709 == 1
AVCOL_PRI_UNSPECIFIED == 2
AVCOL_PRI_BT470M == 4
AVCOL_PRI_BT470BG == 5
AVCOL_PRI_SMPTE170M == 6
AVCOL_PRI_SMPTE240M == 7
AVCOL_PRI_BT2020 == 9

AVCOL_TRC_RESERVED0 == 0
AVCOL_TRC_BT709 == 1
AVCOL_TRC_UNSPECIFIED == 2
AVCOL_TRC_GAMMA22 == 4
AVCOL_TRC_GAMMA28 == 5
AVCOL_TRC_SMPTE170M == 6
AVCOL_TRC_SMPTE240M == 7
AVCOL_TRC_LINEAR == 8
AVCOL_TRC_LOG == 9
AVCOL_TRC_IEC61966_2_4 == 11
AVCOL_TRC_IEC61966_2_1 == 13
AVCOL_TRC_BT2020_10 == 14
AVCOL_TRC_BT2020_12 == 15
AVCOL_TRC_NB == 19

AVCOL_SPC_RGB == 0
AVCOL_SPC_BT709 == 1
AVCOL_SPC_UNSPECIFIED == 2
AVCOL_SPC_BT470BG == 5
AVCOL_SPC_SMPTE170M == 6
AVCOL_SPC_SMPTE240M == 7
AVCOL_SPC_BT2020_NCL == 9

AVCOL_RANGE_UNSPECIFIED == 0
AVCOL_RANGE_MPEG == 1
AVCOL_RANGE_JPEG == 2
AVCOL_RANGE_NB == 3

\* error codes (AVERROR(e) is -e)
EINVAL == 22
ENOMEM == 12

AVERROR(e) == 0 - e

\* FFERRTAG('P', 'A', 'W', 'E')
AVERROR_PATCHWELCOME == 0 - 1163346256

FFMIN(a, b) == IF a > b THEN b ELSE a

FFALIGN(x, a) == ((x + a - 1) \div a) * a

\* F applied to the value of v, with v evaluated once (a C local assigned once)
Bind(v, F(_)) == CHOOSE r \in {F(x) : x \in {v}} : TRUE

\* the null pointer; every non-null pointer is the record it points to
NULL == [null |-> TRUE]

\* the contents of a zero-initialised coefficient table
ZeroCoeffs == [zero |-> TRUE]

(***************************************************************************)
(* Pixel formats (query_formats) and their descriptors.                    *)
(***************************************************************************)
AV_PIX_FMT_NONE == "none"

pix_fmts == {"yuv420p", "yuv444p", "yuv420p12", "gbrpf16", "gbrpf32",
             "gbrapf16", "gbrapf32"}

av_pix_fmt_desc_get(fmt) ==
    CASE fmt = "yuv420p"   -> [rgb |-> FALSE, float |-> FALSE, depth |-> 8,
                               log2_chroma_w |-> 1, log2_chroma_h |-> 1, nb_components |-> 3]
      [] fmt = "yuv444p"   -> [rgb |-> FALSE, float |-> FALSE, depth |-> 8,
                               log2_chroma_w |-> 0, log2_chroma_h |-> 0, nb_components |-> 3]
      [] fmt = "yuv420p10" -> [rgb |-> FALSE, float |-> FALSE, depth |-> 10,
                               log2_chroma_w |-> 1, log2_chroma_h |-> 1, nb_components |-> 3]
      [] fmt = "yuv420p12" -> [rgb |-> FALSE, float |-> FALSE, depth |-> 12,
                               log2_chroma_w |-> 1, log2_chroma_h |-> 1, nb_components |-> 3]
      [] fmt = "gbrpf16"   -> [rgb |-> TRUE, float |-> TRUE, depth |-> 16,
                               log2_chroma_w |-> 0, log2_chroma_h |-> 0, nb_components |-> 3]
      [] fmt = "gbrpf32"   -> [rgb |-> TRUE, float |-> TRUE, depth |-> 32,
                               log2_chroma_w |-> 0, log2_chroma_h |-> 0, nb_components |-> 3]
      [] fmt = "gbrapf16"  -> [rgb |-> TRUE, float |-> TRUE, depth |-> 16,
                               log2_chroma_w |-> 0, log2_chroma_h |-> 0, nb_components |-> 4]
      [] fmt = "gbrapf32"  -> [rgb |-> TRUE, float |-> TRUE, depth |-> 32,
                               log2_chroma_w |-> 0, log2_chroma_h |-> 0, nb_components |-> 4]
      [] fmt = "yuv420p16" -> [rgb |-> FALSE, float |-> FALSE, depth |-> 16,
                               log2_chroma_w |-> 1, log2_chroma_h |-> 1, nb_components |-> 3]

(***************************************************************************)
(* Colour-science tables.                                                  *)
(***************************************************************************)
default_trc(cs) ==
    CASE cs = CS_BT470M      -> AVCOL_TRC_GAMMA22
      [] cs = CS_BT470BG     -> AVCOL_TRC_GAMMA28
      [] cs = CS_BT601_6_525 -> AVCOL_TRC_SMPTE170M
      [] cs = CS_BT601_6_625 -> AVCOL_TRC_SMPTE170M
      [] cs = CS_BT709       -> AVCOL_TRC_BT709
      [] cs = CS_SMPTE170M   -> AVCOL_TRC_SMPTE170M
      [] cs = CS_SMPTE240M   -> AVCOL_TRC_SMPTE240M
      [] cs = CS_BT2020      -> AVCOL_TRC_BT2020_10
      [] OTHER               -> AVCOL_TRC_UNSPECIFIED

default_prm(cs) ==
    CASE cs = CS_BT470M      -> AVCOL_PRI_BT470M
      [] cs = CS_BT470BG     -> AVCOL_PRI_BT470BG
      [] cs = CS_BT601_6_525 -> AVCOL_PRI_SMPTE170M
      [] cs = CS_BT601_6_625 -> AVCOL_PRI_BT470BG
      [] cs = CS_BT709       -> AVCOL_PRI_BT709
      [] cs = CS_SMPTE170M   -> AVCOL_PRI_SMPTE170M
      [] cs = CS_SMPTE240M   -> AVCOL_PRI_SMPTE240M
      [] cs = CS_BT2020      -> AVCOL_PRI_BT2020
      [] OTHER               -> AVCOL_PRI_UNSPECIFIED

default_csp(cs) ==
    CASE cs = CS_BT470M      -> AVCOL_SPC_SMPTE170M
      [] cs = CS_BT470BG     -> AVCOL_SPC_BT470BG
      [] cs = CS_BT601_6_525 -> AVCOL_SPC_SMPTE170M
      [] cs = CS_BT601_6_625 -> AVCOL_SPC_BT470BG
      [] cs = CS_BT709       -> AVCOL_SPC_BT709
      [] cs = CS_SMPTE170M   -> AVCOL_SPC_SMPTE170M
      [] cs = CS_SMPTE240M   -> AVCOL_SPC_SMPTE240M
      [] cs = CS_BT2020      -> AVCOL_SPC_BT2020_NCL
      [] OTHER               -> AVCOL_SPC_UNSPECIFIED

\* { alpha, beta, gamma, delta }, each in units of 10^-7; alpha = 0 where the
\* table has no entry
transfer_characteristics(trc) ==
    CASE trc \in {AVCOL_TRC_BT709, AVCOL_TRC_SMPTE170M, AVCOL_TRC_IEC61966_2_4,
                  AVCOL_TRC_BT2020_10}
                                     -> [alpha |-> 10990000, beta |-> 180000,
                                         gamma |-> 4500000, delta |-> 45000000]
      [] trc = AVCOL_TRC_GAMMA22     -> [alpha |-> 10000000, beta |-> 0,
                                         gamma |-> 4545455, delta |-> 0]
      [] trc = AVCOL_TRC_GAMMA28     -> [alpha |-> 10000000, beta |-> 0,
                                         gamma |-> 3571429, delta |-> 0]
      [] trc = AVCOL_TRC_SMPTE240M   -> [alpha |-> 11115000, beta |-> 228000,
                                         gamma |-> 4500000, delta |-> 40000000]
      [] trc = AVCOL_TRC_LINEAR      -> [alpha |-> 10000000, beta |-> 0,
                                         gamma |-> 10000000, delta |-> 0]
      [] trc = AVCOL_TRC_IEC61966_2_1 -> [alpha |-> 10550000, beta |-> 31308,
                                          gamma |-> 4166667, delta |-> 129200000]
      [] trc = AVCOL_TRC_BT2020_12   -> [alpha |-> 10993000, beta |-> 181000,
                                         gamma |-> 4500000, delta |-> 45000000]
      [] OTHER                       -> [alpha |-> 0, beta |-> 0, gamma |-> 0, delta |-> 0]

get_transfer_characteristics(trc) ==
    IF trc >= AVCOL_TRC_NB THEN NULL
    ELSE IF transfer_characteristics(trc).alpha = 0 THEN NULL
    ELSE transfer_characteristics(trc)

\* libavutil: the named transfer functions; of the transfers of the model
\* only "log" is one that has no parametric entry above
avpriv_get_trc_function_from_trc(trc) ==
    IF trc \in {AVCOL_TRC_BT709, AVCOL_TRC_SMPTE170M, AVCOL_TRC_BT2020_10,
                AVCOL_TRC_BT2020_12, AVCOL_TRC_GAMMA22, AVCOL_TRC_GAMMA28,
                AVCOL_TRC_SMPTE240M, AVCOL_TRC_LINEAR, AVCOL_TRC_LOG,
                AVCOL_TRC_IEC61966_2_4, AVCOL_TRC_IEC61966_2_1}
    THEN [trc_fn |-> trc] ELSE NULL

\* libavutil: chromaticities in units of 10^-3: wp = <<x, y>> of white,
\* prim = <<xr, yr, xg, yg, xb, yb>>
av_csp_primaries_desc_from_id(prm) ==
    CASE prm = AVCOL_PRI_BT709     -> [wp |-> <<313, 329>>,
                                       prim |-> <<640, 330, 300, 600, 150, 60>>]
      [] prm = AVCOL_PRI_BT470M    -> [wp |-> <<310, 316>>,
                                       prim |-> <<670, 330, 210, 710, 140, 80>>]
      [] prm = AVCOL_PRI_BT470BG   -> [wp |-> <<313, 329>>,
                                       prim |-> <<640, 330, 290, 600, 150, 60>>]
      [] prm \in {AVCOL_PRI_SMPTE170M, AVCOL_PRI_SMPTE240M}
                                   -> [wp |-> <<313, 329>>,
                                       prim |-> <<630, 340, 310, 595, 155, 70>>]
      [] prm = AVCOL_PRI_BT2020    -> [wp |-> <<313, 329>>,
                                       prim |-> <<708, 292, 170, 797, 131, 46>>]
      [] OTHER                     -> NULL

\* libavutil: luma coefficients <<cr, cg, cb>> in units of 10^-4
av_csp_luma_coeffs_from_avcsp(csp) ==
    CASE csp = AVCOL_SPC_BT709      -> [cr |-> 2126, cg |-> 7152, cb |-> 722]
      [] csp \in {AVCOL_SPC_BT470BG, AVCOL_SPC_SMPTE170M}
                                    -> [cr |-> 2990, cg |-> 5870, cb |-> 1140]
      [] csp = AVCOL_SPC_SMPTE240M  -> [cr |-> 2120, cg |-> 7010, cb |-> 870]
      [] csp = AVCOL_SPC_BT2020_NCL -> [cr |-> 2627, cg |-> 6780, cb |-> 593]
      [] OTHER                      -> NULL

(***************************************************************************)
(* The filter instance after init(): the private context is zeroed, the    *)
(* options hold the user's values.                                         *)
(***************************************************************************)
ColorSpaceContext(o) ==
    [user_all |-> o.user_all, user_iall |-> o.user_iall,
     user_csp |-> o.user_csp, user_icsp |-> o.user_icsp,
     user_rng |-> o.user_rng, user_irng |-> o.user_irng,
     user_trc |-> o.user_trc, user_itrc |-> o.user_itrc,
     user_prm |-> o.user_prm, user_iprm |-> o.user_iprm,
     user_format |-> o.user_format, fast_mode |-> o.fast_mode,
     dither |-> o.dither, wp_adapt |-> o.wp_adapt,
     in_csp |-> 0, out_csp |-> 0, in_rng |-> 0, out_rng |-> 0,
     in_trc |-> 0, out_trc |-> 0, in_prm |-> 0, out_prm |-> 0,
     rgb |-> NULL, rgb_stride |-> 0, rgb_sz |-> 0, dither_scratch |-> NULL,
     in_primaries |-> NULL, out_primaries |-> NULL,
     lrgb2lrgb_passthrough |-> FALSE, lrgb2lrgb_coeffs |-> ZeroCoeffs,
     in_txchr |-> NULL, out_txchr |-> NULL, rgb2rgb_passthrough |-> FALSE,
     lin_lut |-> NULL, delin_lut |-> NULL,
     f2h_tbl |-> NULL, h2f_tbl |-> NULL,
     in_lumacoef |-> NULL, out_lumacoef |-> NULL,
     yuv2yuv_passthrough |-> FALSE, yuv2yuv_fastmode |-> FALSE,
     yuv2rgb_coeffs |-> ZeroCoeffs, rgb2yuv_coeffs |-> ZeroCoeffs,
     yuv2yuv_coeffs |-> ZeroCoeffs, yuv_offset |-> <<0, 0>>,
     out_trc_fn |-> NULL, yuv2rgb |-> NULL, rgb2yuv |-> NULL,
     rgb2yuv_fsb |-> NULL, yuv2yuv |-> NULL,
     yuv2rgb_dbl_coeffs |-> ZeroCoeffs, rgb2yuv_dbl_coeffs |-> ZeroCoeffs,
     in_y_rng |-> 0, in_uv_rng |-> 0, out_y_rng |-> 0, out_uv_rng |-> 0,
     did_warn_range |-> 0, is_float |-> FALSE, is_float16 |-> FALSE]

(***************************************************************************)
(* create_filtergraph, in the order of its source.  c is the state of one  *)
(* call: the context s, the local flags redo_yuv2rgb and redo_rgb2yuv,     *)
(* done/res once the call has returned, and what the call did: built, the  *)
(* tables it computed, freed, whether it freed an allocated LUT, ranges,   *)
(* its calls of get_range_off, and warns, the warnings it logged.          *)
(***************************************************************************)
Return(c, s1, res) == [c EXCEPT !.s = s1, !.done = TRUE, !.res = res]

supported_depth(d) == d \in {8, 10, 12, 16, 32}

supported_subsampling(lcw, lch) ==
    (lcw = 0 /\ lch = 0) \/ (lcw = 1 /\ lch = 0) \/ (lcw = 1 /\ lch = 1)

supported_format(d) ==
    /\ d.nb_components >= 3
    /\ supported_depth(d.depth)
    /\ supported_subsampling(d.log2_chroma_w, d.log2_chroma_h)

\* the format gate
cfg_formats(c, in_desc, out_desc) ==
    IF in_desc.rgb # out_desc.rgb THEN Return(c, c.s, AVERROR(EINVAL))
    ELSE IF ~supported_format(in_desc) THEN Return(c, c.s, AVERROR(EINVAL))
    ELSE IF ~supported_format(out_desc) THEN Return(c, c.s, AVERROR(EINVAL))
    ELSE c

\* float detection and the half <-> float conversion tables
cfg_float(c, in_desc, fault) ==
    IF c.done THEN c
    ELSE LET s1 == [c.s EXCEPT !.is_float = in_desc.float]
         IN IF ~(in_desc.float /\ in_desc.depth = 16) THEN [c EXCEPT !.s = s1]
            ELSE LET s2 == [s1 EXCEPT !.is_float16 = TRUE]
                 IN IF s2.f2h_tbl = NULL /\ fault = "f2h_tbl"
                    THEN Return(c, s2, AVERROR(ENOMEM))
                    ELSE LET s3 == [s2 EXCEPT !.f2h_tbl = [tables |-> "float2half"]]
                         IN IF s3.h2f_tbl = NULL /\ fault = "h2f_tbl"
                            THEN Return(c, s3, AVERROR(ENOMEM))
                            ELSE [c EXCEPT !.s =
                                     [s3 EXCEPT !.h2f_tbl = [tables |-> "half2float"]]]

\* a cached descriptor is dropped when the frame's tag differs from the
\* tag it was resolved to
cfg_invalidate(c, in, out) ==
    IF c.done THEN c
    ELSE [c EXCEPT !.s =
        [c.s EXCEPT
           !.in_primaries  = IF in.color_primaries # c.s.in_prm THEN NULL ELSE @,
           !.out_primaries = IF out.color_primaries # c.s.out_prm THEN NULL ELSE @,
           !.in_txchr      = IF in.color_trc # c.s.in_trc THEN NULL ELSE @,
           !.out_txchr     = IF out.color_trc # c.s.out_trc THEN NULL ELSE @,
           !.in_lumacoef   = IF in.colorspace # c.s.in_csp \/ in.color_range # c.s.in_rng
                             THEN NULL ELSE @,
           !.out_lumacoef  = IF out.colorspace # c.s.out_csp \/ out.color_range # c.s.out_rng
                             THEN NULL ELSE @]]

\* the effective input tags: the frame's, overridden by iall, overridden by
\* the side-specific option
resolve_in_prm(s0, in) ==
    LET all == IF s0.user_iall # CS_UNSPECIFIED
               THEN default_prm(FFMIN(s0.user_iall, CS_NB)) ELSE in.color_primaries
    IN IF s0.user_iprm # AVCOL_PRI_UNSPECIFIED THEN s0.user_iprm ELSE all

\* resolve_in_trc without the iall preset
resolve_in_trc_no_preset(s0, in) ==
    IF s0.user_itrc # AVCOL_TRC_UNSPECIFIED THEN s0.user_itrc ELSE in.color_trc

resolve_in_trc(s0, in) ==
    LET all == IF s0.user_iall # CS_UNSPECIFIED
               THEN default_trc(FFMIN(s0.user_iall, CS_NB)) ELSE in.color_trc
    IN IF s0.user_itrc # AVCOL_TRC_UNSPECIFIED THEN s0.user_itrc ELSE all

resolve_in_csp(s0, in) ==
    LET all == IF s0.user_iall # CS_UNSPECIFIED
               THEN default_csp(FFMIN(s0.user_iall, CS_NB)) ELSE in.colorspace
    IN IF s0.user_icsp # AVCOL_SPC_UNSPECIFIED THEN s0.user_icsp ELSE all

resolve_in_rng(s0, in) ==
    IF s0.user_irng # AVCOL_RANGE_UNSPECIFIED THEN s0.user_irng ELSE in.color_range

\* the linear RGB -> linear RGB matrix: rgb2xyz of the input primaries, the
\* whitepoint adaptation (when it applies), xyz2rgb of the output primaries
\* fill_whitepoint_conv_table: the adaptation matrix of the cone matrix
\* ma_tbl[wp_adapt] and the two whitepoints; ma_tbl has
\* NB_WP_ADAPT_NON_IDENTITY entries
fill_whitepoint_conv_table(wp_adapt, wp_src, wp_dst) ==
    [ma_tbl |-> wp_adapt, wp_src |-> wp_src, wp_dst |-> wp_dst]

\* fill_lrgb2lrgb adapting whenever the whitepoints differ
fill_lrgb2lrgb_any_mode(s0) ==
    [rgb2xyz |-> s0.in_primaries, xyz2rgb |-> s0.out_primaries,
     wpconv |-> IF s0.in_primaries.wp # s0.out_primaries.wp
                THEN <<fill_whitepoint_conv_table(s0.wp_adapt, s0.in_primaries.wp,
                                                  s0.out_primaries.wp)>>
                ELSE <<>>]

fill_lrgb2lrgb(s0) ==
    [rgb2xyz |-> s0.in_primaries, xyz2rgb |-> s0.out_primaries,
     wpconv |-> IF s0.in_primaries.wp # s0.out_primaries.wp
                   /\ s0.wp_adapt # WP_ADAPT_IDENTITY
                THEN <<fill_whitepoint_conv_table(s0.wp_adapt, s0.in_primaries.wp,
                                                  s0.out_primaries.wp)>>
                ELSE <<>>]

cfg_primaries(c, in, out) ==
    IF c.done \/ ~(c.s.out_primaries = NULL \/ c.s.in_primaries = NULL) THEN c
    ELSE LET in_prm == resolve_in_prm(c.s, in)
             s1 == [c.s EXCEPT !.in_prm = in_prm,
                               !.in_primaries = av_csp_primaries_desc_from_id(in_prm)]
         IN IF s1.in_primaries = NULL THEN Return(c, s1, AVERROR(EINVAL))
            ELSE LET s2 == [s1 EXCEPT
                              !.out_prm = out.color_primaries,
                              !.out_primaries =
                                  av_csp_primaries_desc_from_id(out.color_primaries)]
                 IN IF s2.out_primaries = NULL THEN Return(c, s2, AVERROR(EINVAL))
                    ELSE LET s3 == [s2 EXCEPT !.lrgb2lrgb_passthrough =
                                               (s2.in_primaries = s2.out_primaries)]
                         IN IF s3.lrgb2lrgb_passthrough THEN [c EXCEPT !.s = s3]
                            ELSE [c EXCEPT
                                    !.s = [s3 EXCEPT !.lrgb2lrgb_coeffs =
                                                        fill_lrgb2lrgb(s3)],
                                    !.built = @ \cup {"lrgb2lrgb_coeffs"}]

\* av_freep(&s->lin_lut): delin_lut points into the same allocation and is
\* left pointing at the freed memory
free_lin_lut(s0) ==
    IF s0.lin_lut = NULL THEN s0
    ELSE [s0 EXCEPT !.lin_lut = NULL, !.delin_lut = [freed |-> TRUE]]

cfg_in_txchr(c, in) ==
    IF c.done \/ c.s.in_txchr # NULL THEN c
    ELSE LET in_trc == resolve_in_trc(c.s, in)
             s1 == [free_lin_lut(c.s) EXCEPT
                       !.in_trc = in_trc,
                       !.in_txchr = get_transfer_characteristics(in_trc)]
             c1 == [c EXCEPT !.freed = @ \/ c.s.lin_lut # NULL]
         IN IF s1.in_txchr = NULL THEN Return(c1, s1, AVERROR(EINVAL))
            ELSE [c1 EXCEPT !.s = s1]

cfg_out_txchr(c, out) ==
    IF c.done \/ c.s.out_txchr # NULL THEN c
    ELSE LET s1 == [free_lin_lut(c.s) EXCEPT
                       !.out_trc = out.color_trc,
                       !.out_txchr = get_transfer_characteristics(out.color_trc)]
             c1 == [c EXCEPT !.freed = @ \/ c.s.lin_lut # NULL]
         IN IF s1.out_txchr # NULL THEN [c1 EXCEPT !.s = s1]
            ELSE LET s2 == [s1 EXCEPT !.out_trc_fn =
                                 avpriv_get_trc_function_from_trc(s1.out_trc)]
                 IN IF s2.out_trc_fn = NULL THEN Return(c1, s2, AVERROR(EINVAL))
                    ELSE [c1 EXCEPT !.s = s2]

\* fill_gamma_table / fill_gamma_table_f16: both tables are one allocation,
\* computed from the input transfer parameters and from the output transfer
\* function (when there is one) or else the output transfer parameters
fill_gamma_table(s0, kind) ==
    LET lut == [kind |-> kind, lin |-> s0.in_txchr,
                delin |-> IF s0.out_trc_fn # NULL THEN s0.out_trc_fn ELSE s0.out_txchr]
    IN [s0 EXCEPT !.lin_lut = lut, !.delin_lut = lut]

rgb2rgb_passthrough_flag(s0) ==
    s0.fast_mode \/ (/\ s0.lrgb2lrgb_passthrough
                     /\ s0.out_trc_fn = NULL
                     /\ s0.in_txchr = s0.out_txchr)

cfg_gamma(c, fault) ==
    IF c.done THEN c
    ELSE LET s1 == [c.s EXCEPT !.rgb2rgb_passthrough = rgb2rgb_passthrough_flag(c.s)]
         IN IF ~(~s1.rgb2rgb_passthrough /\ s1.lin_lut = NULL) THEN [c EXCEPT !.s = s1]
            ELSE IF ~s1.is_float
                 THEN IF fault = "lin_lut" THEN Return(c, s1, AVERROR(ENOMEM))
                      ELSE [c EXCEPT !.s = fill_gamma_table(s1, "int16"),
                                     !.built = @ \cup {"lin_lut"}]
            ELSE IF s1.is_float16
                 THEN IF fault = "lin_lut" THEN Return(c, s1, AVERROR(ENOMEM))
                      ELSE [c EXCEPT !.s = fill_gamma_table(s1, "half"),
                                     !.built = @ \cup {"lin_lut"}]
            ELSE [c EXCEPT !.s = s1]

cfg_in_lumacoef(c, in) ==
    IF c.done \/ c.s.in_lumacoef # NULL THEN c
    ELSE LET in_csp == resolve_in_csp(c.s, in)
             s1 == [c.s EXCEPT !.in_csp = in_csp,
                               !.in_rng = resolve_in_rng(c.s, in),
                               !.in_lumacoef = av_csp_luma_coeffs_from_avcsp(in_csp)]
         IN IF s1.in_lumacoef = NULL THEN Return(c, s1, AVERROR(EINVAL))
            ELSE [c EXCEPT !.s = s1, !.redo_yuv2rgb = TRUE]

\* cfg_out_lumacoef taking the input's luma coefficients where the output
\* matrix is not one of the table
cfg_out_lumacoef_of_input(c, out) ==
    IF c.done \/ c.s.out_lumacoef # NULL THEN c
    ELSE LET coef == av_csp_luma_coeffs_from_avcsp(out.colorspace)
         IN [c EXCEPT !.s = [c.s EXCEPT !.out_csp = out.colorspace,
                                        !.out_rng = out.color_range,
                                        !.out_lumacoef = IF coef = NULL
                                                         THEN c.s.in_lumacoef
                                                         ELSE coef],
                      !.redo_rgb2yuv = TRUE]

cfg_out_lumacoef(c, out) ==
    IF c.done \/ c.s.out_lumacoef # NULL THEN c
    ELSE LET s1 == [c.s EXCEPT !.out_csp = out.colorspace,
                               !.out_rng = out.color_range,
                               !.out_lumacoef =
                                   av_csp_luma_coeffs_from_avcsp(out.colorspace)]
         IN IF s1.out_lumacoef = NULL THEN Return(c, s1, AVERROR(EINVAL))
            ELSE [c EXCEPT !.s = s1, !.redo_rgb2yuv = TRUE]

\* yuv2yuv_fastmode_flag without the comparison of the chroma subsampling
yuv2yuv_fastmode_flag_any_ss(s0, in_desc, out_desc) ==
    s0.rgb2rgb_passthrough

\* the passthrough selector
yuv2yuv_fastmode_flag(s0, in_desc, out_desc) ==
    /\ s0.rgb2rgb_passthrough
    /\ in_desc.log2_chroma_h = out_desc.log2_chroma_h
    /\ in_desc.log2_chroma_w = out_desc.log2_chroma_w

\* yuv2yuv_passthrough_flag with dithering keeping the kernels on
yuv2yuv_passthrough_flag_dither(s0, in_desc, out_desc) ==
    /\ s0.dither = DITHER_NONE
    /\ s0.yuv2yuv_fastmode
    /\ s0.in_rng = s0.out_rng
    /\ s0.in_lumacoef = s0.out_lumacoef
    /\ in_desc.depth = out_desc.depth

yuv2yuv_passthrough_flag(s0, in_desc, out_desc) ==
    /\ s0.yuv2yuv_fastmode
    /\ s0.in_rng = s0.out_rng
    /\ s0.in_lumacoef = s0.out_lumacoef
    /\ in_desc.depth = out_desc.depth

cfg_flags(c, in_desc, out_desc) ==
    IF c.done THEN c
    ELSE LET s1 == [c.s EXCEPT !.yuv2yuv_fastmode =
                                  yuv2yuv_fastmode_flag(c.s, in_desc, out_desc)]
         IN [c EXCEPT !.s = [s1 EXCEPT !.yuv2yuv_passthrough =
                                  yuv2yuv_passthrough_flag(s1, in_desc, out_desc)]]

\* 1 << n
Shl(n) == 2 ^ n

\* get_range_off warning whenever the range is unspecified
get_range_off_warns_always(s0, rng, depth) ==
    CASE rng = AVCOL_RANGE_UNSPECIFIED \/ rng = AVCOL_RANGE_MPEG ->
           [res |-> 0, warned |-> s0.did_warn_range,
            warn |-> (rng = AVCOL_RANGE_UNSPECIFIED),
            off |-> 16 * Shl(depth - 8),
            y_rng |-> 219 * Shl(depth - 8),
            uv_rng |-> 224 * Shl(depth - 8)]
      [] rng = AVCOL_RANGE_JPEG ->
           [res |-> 0, warned |-> s0.did_warn_range, warn |-> FALSE,
            off |-> 0,
            y_rng |-> 256 * Shl(depth - 8) - 1,
            uv_rng |-> 256 * Shl(depth - 8) - 1]
      [] OTHER ->
           [res |-> AVERROR(EINVAL), warned |-> s0.did_warn_range, warn |-> FALSE,
            off |-> 0, y_rng |-> 0, uv_rng |-> 0]

get_range_off(s0, rng, depth) ==
    CASE rng = AVCOL_RANGE_UNSPECIFIED \/ rng = AVCOL_RANGE_MPEG ->
           [res |-> 0,
            warned |-> IF rng = AVCOL_RANGE_UNSPECIFIED THEN 1 ELSE s0.did_warn_range,
            warn |-> (rng = AVCOL_RANGE_UNSPECIFIED /\ s0.did_warn_range = 0),
            off |-> 16 * Shl(depth - 8),
            y_rng |-> 219 * Shl(depth - 8),
            uv_rng |-> 224 * Shl(depth - 8)]
      [] rng = AVCOL_RANGE_JPEG ->
           [res |-> 0, warned |-> s0.did_warn_range, warn |-> FALSE,
            off |-> 0,
            y_rng |-> 256 * Shl(depth - 8) - 1,
            uv_rng |-> 256 * Shl(depth - 8) - 1]
      [] OTHER ->
           [res |-> AVERROR(EINVAL), warned |-> s0.did_warn_range, warn |-> FALSE,
            off |-> 0, y_rng |-> 0, uv_rng |-> 0]

\* the call get_range_off(ctx, &off, &y_rng, &uv_rng, rng, depth) and what it
\* returned in r
range_call(rng, depth, r) ==
    [rng |-> rng, depth |-> depth, res |-> r.res,
     off |-> r.off, y_rng |-> r.y_rng, uv_rng |-> r.uv_rng]

\* c after that call: the call is recorded and its warning counted
ranged(c, rng, depth, r) ==
    [c EXCEPT !.ranges = @ \cup {range_call(rng, depth, r)},
              !.warns = @ + (IF r.warn THEN 1 ELSE 0)]

\* ff_fill_rgb2yuv_table and its inverse, as double matrices
fill_rgb2yuv_dbl(lumacoef) == [rgb2yuv_of |-> lumacoef]

fill_yuv2rgb_dbl(lumacoef) == [inverse_of |-> fill_rgb2yuv_dbl(lumacoef)]

\* lrint(28672 * bits * yuv2rgb[n][m] / in_rng), in_rng the Y width for
\* column 0 and the UV width for columns 1 and 2
quant_yuv2rgb(dbl, y_rng, uv_rng, depth) ==
    [dbl |-> dbl, y_rng |-> y_rng, uv_rng |-> uv_rng, bits |-> Shl(depth - 1)]

\* lrint(bits * out_rng * rgb2yuv[n][m] / 28672)
quant_rgb2yuv(dbl, y_rng, uv_rng, depth) ==
    [dbl |-> dbl, y_rng |-> y_rng, uv_rng |-> uv_rng, bits |-> Shl(29 - depth)]

\* lrint(16384 * (yuv2rgb x rgb2yuv)[m][n] * out_rng * (1 << idepth) /
\*       (in_rng * (1 << odepth)))
quant_yuv2yuv(s0, idepth, odepth) ==
    [yuv2rgb |-> s0.yuv2rgb_dbl_coeffs, rgb2yuv |-> s0.rgb2yuv_dbl_coeffs,
     in_y_rng |-> s0.in_y_rng, in_uv_rng |-> s0.in_uv_rng,
     out_y_rng |-> s0.out_y_rng, out_uv_rng |-> s0.out_uv_rng,
     idepth |-> idepth, odepth |-> odepth]

\* an entry of the dsp kernel tables
dsp_yuv2rgb(d, ss) == [fn |-> "yuv2rgb", depth |-> d, ss |-> ss]

dsp_rgb2yuv(d, ss) == [fn |-> "rgb2yuv", depth |-> d, ss |-> ss]

dsp_rgb2yuv_fsb(d, ss) == [fn |-> "rgb2yuv_fsb", depth |-> d, ss |-> ss]

dsp_yuv2yuv(id, od, ss) == [fn |-> "yuv2yuv", idepth |-> id, odepth |-> od, ss |-> ss]

cfg_yuv2rgb(c, in_desc) ==
    IF c.done \/ c.s.yuv2yuv_passthrough \/ in_desc.rgb \/ ~c.redo_yuv2rgb THEN c
    ELSE LET r == get_range_off(c.s, c.s.in_rng, in_desc.depth)
             s1 == [c.s EXCEPT !.did_warn_range = r.warned]
             c1 == ranged(c, c.s.in_rng, in_desc.depth, r)
         IN IF r.res < 0 THEN Return(c1, s1, r.res)
            ELSE LET dbl == fill_yuv2rgb_dbl(s1.in_lumacoef)
                 IN [c1 EXCEPT !.built = @ \cup {"yuv2rgb_coeffs"}, !.s = [s1 EXCEPT
                       !.in_y_rng = r.y_rng,
                       !.in_uv_rng = r.uv_rng,
                       !.yuv_offset = [@ EXCEPT ![1] = r.off],
                       !.yuv2rgb_dbl_coeffs = dbl,
                       !.yuv2rgb_coeffs =
                           quant_yuv2rgb(dbl, r.y_rng, r.uv_rng, in_desc.depth),
                       !.yuv2rgb = dsp_yuv2rgb((in_desc.depth - 8) \div 2,
                                     in_desc.log2_chroma_h + in_desc.log2_chroma_w)]]

cfg_rgb2yuv(c, in_desc, out_desc) ==
    IF c.done \/ c.s.yuv2yuv_passthrough \/ in_desc.rgb
       \/ ~(c.redo_rgb2yuv /\ ~out_desc.rgb) THEN c
    ELSE LET r == get_range_off(c.s, c.s.out_rng, out_desc.depth)
             s1 == [c.s EXCEPT !.did_warn_range = r.warned]
             c1 == ranged(c, c.s.out_rng, out_desc.depth, r)
         IN IF r.res < 0 THEN Return(c1, s1, r.res)
            ELSE LET dbl == fill_rgb2yuv_dbl(s1.out_lumacoef)
                     d == (out_desc.depth - 8) \div 2
                     ss == out_desc.log2_chroma_h + out_desc.log2_chroma_w
                 IN [c1 EXCEPT !.built = @ \cup {"rgb2yuv_coeffs"}, !.s = [s1 EXCEPT
                       !.out_y_rng = r.y_rng,
                       !.out_uv_rng = r.uv_rng,
                       !.yuv_offset = [@ EXCEPT ![2] = r.off],
                       !.rgb2yuv_dbl_coeffs = dbl,
                       !.rgb2yuv_coeffs =
                           quant_rgb2yuv(dbl, r.y_rng, r.uv_rng, out_desc.depth),
                       !.rgb2yuv = dsp_rgb2yuv(d, ss),
                       !.rgb2yuv_fsb = dsp_rgb2yuv_fsb(d, ss)]]

cfg_yuv2yuv(c, in_desc, out_desc) ==
    IF c.done \/ c.s.yuv2yuv_passthrough \/ in_desc.rgb
       \/ ~(c.s.yuv2yuv_fastmode /\ (c.redo_yuv2rgb \/ c.redo_rgb2yuv)) THEN c
    ELSE [c EXCEPT !.built = @ \cup {"yuv2yuv_coeffs"}, !.s = [c.s EXCEPT
            !.yuv2yuv_coeffs = quant_yuv2yuv(c.s, in_desc.depth, out_desc.depth),
            !.yuv2yuv = dsp_yuv2yuv((in_desc.depth - 8) \div 2,
                                    (out_desc.depth - 8) \div 2,
                                    in_desc.log2_chroma_h + in_desc.log2_chroma_w)]]

create_filtergraph(s0, in, out, fault) ==
    LET in_desc == av_pix_fmt_desc_get(in.format)
        out_desc == av_pix_fmt_desc_get(out.format)
        c0 == [s |-> s0, done |-> FALSE, res |-> 0,
               redo_yuv2rgb |-> FALSE, redo_rgb2yuv |-> FALSE,
               built |-> {}, freed |-> FALSE, ranges |-> {}, warns |-> 0]
    IN Bind(cfg_formats(c0, in_desc, out_desc), LAMBDA c1 :
       Bind(cfg_float(c1, in_desc, fault), LAMBDA c2 :
       Bind(cfg_invalidate(c2, in, out), LAMBDA c3 :
       Bind(cfg_primaries(c3, in, out), LAMBDA c4 :
       Bind(cfg_in_txchr(c4, in), LAMBDA c5 :
       Bind(cfg_out_txchr(c5, out), LAMBDA c6 :
       Bind(cfg_gamma(c6, fault), LAMBDA c7 :
       Bind(cfg_in_lumacoef(c7, in), LAMBDA c8 :
       Bind(cfg_out_lumacoef(c8, out), LAMBDA c9 :
       Bind(cfg_flags(c9, in_desc, out_desc), LAMBDA c10 :
       Bind(cfg_yuv2rgb(c10, in_desc), LAMBDA c11 :
       Bind(cfg_rgb2yuv(c11, in_desc, out_desc), LAMBDA c12 :
       Bind(cfg_yuv2yuv(c12, in_desc, out_desc), LAMBDA c13 :
           [s |-> c13.s, res |-> c13.res,
            built |-> c13.built, freed |-> c13.freed,
            ranges |-> c13.ranges, warns |-> c13.warns])))))))))))))

(***************************************************************************)
(* The slice kernels: the stages one job of convert / convert_f16 /        *)
(* convert_f32 runs, in order, each with the kernel pointer or table it    *)
(* uses.                                                                   *)
(***************************************************************************)
Stage(op, fn, tbl) == [op |-> op, fn |-> fn, tbl |-> tbl]

\* the built-in kernels, called directly and not through a pointer of s
Builtin == [builtin |-> TRUE]

rgb2yuv_stage(s0) ==
    IF s0.dither = DITHER_FSB
    THEN Stage("rgb2yuv_fsb", s0.rgb2yuv_fsb, s0.rgb2yuv_coeffs)
    ELSE Stage("rgb2yuv", s0.rgb2yuv, s0.rgb2yuv_coeffs)

\* rgb2rgb_stages with the matrix applied to the delinearized values
rgb2rgb_stages_matrix_last(s0) ==
    IF s0.rgb2rgb_passthrough THEN <<>>
    ELSE <<Stage("apply_lut:lin", Builtin, s0.lin_lut)>>
         \o <<Stage("apply_lut:delin", Builtin, s0.delin_lut)>>
         \o (IF s0.lrgb2lrgb_passthrough THEN <<>>
             ELSE <<Stage("multiply3x3", Builtin, s0.lrgb2lrgb_coeffs)>>)

rgb2rgb_stages(s0) ==
    IF s0.rgb2rgb_passthrough THEN <<>>
    ELSE <<Stage("apply_lut:lin", Builtin, s0.lin_lut)>>
         \o (IF s0.lrgb2lrgb_passthrough THEN <<>>
             ELSE <<Stage("multiply3x3", Builtin, s0.lrgb2lrgb_coeffs)>>)
         \o <<Stage("apply_lut:delin", Builtin, s0.delin_lut)>>

convert(s0) ==
    IF s0.yuv2yuv_fastmode
    THEN <<Stage("yuv2yuv", s0.yuv2yuv, s0.yuv2yuv_coeffs)>>
    ELSE <<Stage("yuv2rgb", s0.yuv2rgb, s0.yuv2rgb_coeffs)>>
         \o rgb2rgb_stages(s0)
         \o <<rgb2yuv_stage(s0)>>

convert_f16(s0) ==
    IF s0.in_trc = AVCOL_TRC_LINEAR /\ s0.lrgb2lrgb_passthrough
    THEN <<Stage("apply_lut_f16:delin", Builtin, s0.delin_lut)>>
    ELSE <<Stage("apply_lut_f16:lin", Builtin, s0.lin_lut)>>
         \o (IF s0.lrgb2lrgb_passthrough THEN <<>>
             ELSE <<Stage("multiply3x3_f16", Builtin, s0.lrgb2lrgb_coeffs)>>)
         \o <<Stage("apply_lut_f16:delin", Builtin, s0.delin_lut)>>

convert_f32(s0) ==
    IF s0.in_trc = AVCOL_TRC_LINEAR /\ s0.lrgb2lrgb_passthrough
    THEN <<Stage("apply_delinearize_f32", Builtin,
                 IF s0.out_trc_fn # NULL THEN s0.out_trc_fn ELSE s0.out_txchr)>>
    ELSE <<Stage("apply_linearize_f32", Builtin, s0.in_txchr)>>
         \o (IF s0.lrgb2lrgb_passthrough THEN <<>>
             ELSE <<Stage("multiply3x3_f32", Builtin, s0.lrgb2lrgb_coeffs)>>)
         \o <<Stage("apply_delinearize_f32", Builtin,
                    IF s0.out_trc_fn # NULL THEN s0.out_trc_fn ELSE s0.out_txchr)>>

(***************************************************************************)
(* filter_frame.                                                           *)
(***************************************************************************)
\* what one call of filter_frame did.  Nothing yet: no output frame was
\* obtained (out_alloc), create_filtergraph was not called (cfg, and cfg_res
\* what it returned), nothing was run, forwarded or released (in_freed and
\* out_freed count the calls of av_frame_free on the input and on the output
\* frame)
NoExec ==
    [fn |-> "none", n_jobs |-> 0, stages |-> <<>>, forwarded |-> FALSE,
     built |-> {}, freed |-> FALSE, cfg |-> "none", cfg_res |-> 0,
     ranges |-> {}, warns |-> 0,
     out_alloc |-> FALSE, in_freed |-> 0, out_freed |-> 0, fault |-> "none"]

\* release without the av_frame_free(&out)
release_in_only(did, n_in, n_out) == [did EXCEPT !.in_freed = @ + n_in]

\* av_frame_free(&in) n_in times and av_frame_free(&out) n_out times
release(did, n_in, n_out) ==
    [did EXCEPT !.in_freed = @ + n_in, !.out_freed = @ + n_out]

\* failed with the error lost
failed_returns_ok(s1, res, did) == [s |-> s1, out |-> NULL, ret |-> 0, exec |-> did]

\* filter_frame returns the error res
failed(s1, res, did) == [s |-> s1, out |-> NULL, ret |-> res, exec |-> did]

\* what filter_frame did up to the return of create_filtergraph
cfg_did(cf) ==
    [NoExec EXCEPT !.out_alloc = TRUE,
                   !.cfg = IF cf.res < 0 THEN "failed" ELSE "ok",
                   !.cfg_res = cf.res,
                   !.built = cf.built, !.freed = cf.freed,
                   !.ranges = cf.ranges, !.warns = cf.warns]

\* uninit without the av_freep of the planes of s->rgb
uninit_keeps_rgb(s0) ==
    [free_lin_lut(s0) EXCEPT !.rgb_sz = 0, !.dither_scratch = NULL,
                             !.f2h_tbl = NULL, !.h2f_tbl = NULL]

\* uninit(): every buffer of the instance is freed
uninit(s0) ==
    [free_lin_lut(s0) EXCEPT !.rgb = NULL, !.rgb_sz = 0, !.dither_scratch = NULL,
                             !.f2h_tbl = NULL, !.h2f_tbl = NULL]

\* the output frame's tags
out_color_primaries(s0) ==
    IF s0.user_prm = AVCOL_PRI_UNSPECIFIED
    THEN default_prm(FFMIN(s0.user_all, CS_NB)) ELSE s0.user_prm

\* out_color_trc without the 12-bit variant of the BT.2020 transfer
out_color_trc_any_depth(s0, out_desc) ==
    IF s0.user_trc = AVCOL_TRC_UNSPECIFIED
    THEN default_trc(FFMIN(s0.user_all, CS_NB)) ELSE s0.user_trc

out_color_trc(s0, out_desc) ==
    IF s0.user_trc = AVCOL_TRC_UNSPECIFIED
    THEN LET trc == default_trc(FFMIN(s0.user_all, CS_NB))
         IN IF trc = AVCOL_TRC_BT2020_10 /\ out_desc.depth >= 12
            THEN AVCOL_TRC_BT2020_12 ELSE trc
    ELSE s0.user_trc

out_colorspace(s0) ==
    IF s0.user_csp = AVCOL_SPC_UNSPECIFIED
    THEN default_csp(FFMIN(s0.user_all, CS_NB)) ELSE s0.user_csp

\* out_color_range inheriting the overridden input range, not the frame's
out_color_range_of_irng(s0, in) ==
    IF s0.user_rng = AVCOL_RANGE_UNSPECIFIED
    THEN IF s0.user_irng # AVCOL_RANGE_UNSPECIFIED THEN s0.user_irng
         ELSE in.color_range
    ELSE s0.user_rng

out_color_range(s0, in) ==
    IF s0.user_rng = AVCOL_RANGE_UNSPECIFIED THEN in.color_range ELSE s0.user_rng

\* the fourth plane of a frame of format fmt is its alpha plane
has_alpha(fmt) == av_pix_fmt_desc_get(fmt).nb_components = 4

\* the bytes of the samples of one row of a full-size plane
row_bytes(fmt, w) ==
    w * (IF av_pix_fmt_desc_get(fmt).depth > 16 THEN 4
         ELSE IF av_pix_fmt_desc_get(fmt).depth > 8 THEN 2 ELSE 1)

\* linesize[0..3] of a frame whose rows are ls bytes apart; a plane the
\* format does not have has linesize 0
linesizes(fmt, ls) == <<ls, ls, ls, IF has_alpha(fmt) THEN ls ELSE 0>>

\* the alpha plane data[3] of a frame from upstream: its rows, each row with
\* its own content; NULL when the format has none
alpha_plane(fmt, h) ==
    IF has_alpha(fmt) THEN [y \in 1 .. h |-> [alpha_row |-> y]] ELSE NULL

\* ff_get_video_buffer and av_frame_copy_props: a frame of the output link's
\* format and size with the input's properties and undefined pixels
get_video_buffer(lnk, in) ==
    [in EXCEPT !.format = lnk.out_format, !.width = lnk.w, !.height = lnk.h,
               !.data = [uninit |-> TRUE],
               !.alpha = IF has_alpha(lnk.out_format)
                         THEN [y \in 1 .. lnk.h |-> [uninit |-> TRUE]] ELSE NULL,
               !.linesize = linesizes(lnk.out_format,
                                      FFALIGN(row_bytes(lnk.out_format, lnk.w), 32))]

\* av_frame_copy: the pixels of src into dst
av_frame_copy(dst, src) == [dst EXCEPT !.data = src.data, !.alpha = src.alpha]

\* the alpha loop of one job on the output alpha plane: rows h1 .. h2 - 1
\* in turn, each a memcpy of in_linesize[3] bytes to a row of
\* out_linesize[3] bytes.  A copy longer than the output row runs on into
\* the start of the next output row, which the copy of the next row then
\* overwrites; after the loop that is the row h2, when the plane has one.
\* Rows are numbered from 1 here, so the loop writes rows h1 + 1 .. h2.
copy_alpha(alpha, in, out, h1, h2) ==
    IF in.alpha = NULL \/ h2 <= h1 THEN alpha
    ELSE [y \in DOMAIN alpha |->
            IF y \in (h1 + 1) .. h2 THEN in.alpha[y]
            ELSE IF y = h2 + 1 /\ in.linesize[4] > out.linesize[4]
                 THEN [head_from |-> in.alpha[h2], tail |-> alpha[y]]
            ELSE alpha[y]]

\* the pixels a kernel chain writes
converted(in, fn, stages) == [src |-> in.data, by |-> fn, stages |-> stages]

pixel_size(in) == IF in.format \in {"gbrpf32", "gbrapf32"} THEN 4 ELSE 2

\* the scratch buffers, reallocated when rgb_sz changes
alloc_scratch(s0, in, out, rgb_sz) ==
    LET uvw == in.width \div Shl(av_pix_fmt_desc_get(out.format).log2_chroma_w)
    IN [s0 EXCEPT !.rgb = [size |-> rgb_sz],
                  !.dither_scratch = [luma |-> in.width + 4, chroma |-> uvw + 4],
                  !.rgb_sz = rgb_sz]

\* the scratch buffers when an av_malloc of a dither row returned NULL: the
\* old buffers are freed, rgb_sz is 0 and the planes of s->rgb are the new
\* ones
alloc_scratch_failed(s0, rgb_sz) ==
    [s0 EXCEPT !.rgb = [size |-> rgb_sz], !.dither_scratch = NULL, !.rgb_sz = 0]

\* one job per worker, whatever the height
n_jobs_per_worker(in, nb_threads) == nb_threads

n_jobs(in, nb_threads) == FFMIN((in.height + 1) \div 2, nb_threads)

\* the rows h1 .. h2 - 1 of the job job_nr of n
slice_rows(job_nr, n, height) ==
    LET h_in == (height + 1) \div 2
    IN [h1 |-> 2 * ((job_nr * h_in) \div n),
        h2 |-> 2 * (((job_nr + 1) * h_in) \div n)]

\* the output alpha plane after the jobs j .. n - 1 ran their alpha loops
\* one after the other
RECURSIVE alpha_jobs(_, _, _, _, _)
alpha_jobs(alpha, in, out, n, j) ==
    IF j >= n THEN alpha
    ELSE alpha_jobs(copy_alpha(alpha, in, out,
                               slice_rows(j, n, in.height).h1,
                               slice_rows(j, n, in.height).h2),
                    in, out, n, j + 1)

\* the slice function and the kernels its jobs run, for the configured context
slice_function(s0) ==
    IF s0.is_float THEN IF s0.is_float16 THEN "convert_f16" ELSE "convert_f32"
    ELSE "convert"

slice_stages(s0) ==
    CASE slice_function(s0) = "convert" -> convert(s0)
      [] slice_function(s0) = "convert_f16" -> convert_f16(s0)
      [] OTHER -> convert_f32(s0)

\* filter_frame from the successful return of create_filtergraph on; it
\* returns what ff_filter_frame returns, an error when downstream failed
dispatch(s0, cf, lnk, in, out, fault) ==
    LET did == cfg_did(cf)
        res == IF fault = "ff_filter_frame" THEN AVERROR(ENOMEM) ELSE 0
    IN IF s0.yuv2yuv_passthrough
       THEN IF fault = "copy"
            THEN failed(s0, AVERROR(EINVAL), release(did, 1, 1))
            ELSE [s |-> s0, out |-> av_frame_copy(out, in), ret |-> res,
                  exec |-> [release(did, 1, 0) EXCEPT !.fn = "av_frame_copy",
                                                      !.forwarded = TRUE]]
       ELSE Bind(slice_stages(s0), LAMBDA stages :
            [s |-> s0,
             out |-> [out EXCEPT
                        !.data = converted(in, slice_function(s0), stages),
                        !.alpha = IF s0.is_float
                                  THEN alpha_jobs(out.alpha, in, out,
                                                  n_jobs(in, lnk.nb_threads), 0)
                                  ELSE @],
             ret |-> res,
             exec |-> [release(did, 1, 0) EXCEPT
                          !.fn = slice_function(s0),
                          !.n_jobs = n_jobs(in, lnk.nb_threads),
                          !.stages = stages,
                          !.forwarded = TRUE]])

filter_frame_out(s0, lnk, in) ==
    LET out0 == get_video_buffer(lnk, in)
    IN [out0 EXCEPT
          !.color_primaries = out_color_primaries(s0),
          !.color_trc = out_color_trc(s0, av_pix_fmt_desc_get(out0.format)),
          !.colorspace = out_colorspace(s0),
          !.color_range = out_color_range(s0, in)]

filter_frame(s0, lnk, in, fault) ==
    LET rgb_stride == FFALIGN(in.width * pixel_size(in), 32)
        rgb_sz == rgb_stride * in.height
        got == [NoExec EXCEPT !.out_alloc = TRUE]
    IN IF fault = "out" THEN failed(s0, AVERROR(ENOMEM), release(NoExec, 1, 0))
       ELSE IF fault = "props" THEN failed(s0, AVERROR(ENOMEM), release(got, 1, 1))
       ELSE IF rgb_sz # s0.rgb_sz /\ fault = "scratch"
            THEN failed(uninit(alloc_scratch_failed(s0, rgb_sz)), AVERROR(ENOMEM),
                        release(got, 1, 1))
       ELSE Bind(filter_frame_out(s0, lnk, in), LAMBDA out :
            Bind(IF rgb_sz # s0.rgb_sz THEN alloc_scratch(s0, in, out, rgb_sz)
                 ELSE s0, LAMBDA s1 :
            Bind(create_filtergraph(s1, in, out, fault), LAMBDA cf :
                IF cf.res < 0
                THEN failed(cf.s, cf.res, release(cfg_did(cf), 1, 1))
                ELSE Bind([cf.s EXCEPT !.rgb_stride = rgb_stride], LAMBDA s2 :
                          dispatch(s2, cf, lnk, in, out, fault)))))

(***************************************************************************)
(* The environment: the options of the instance, the negotiated link, the  *)
(* frames the host sends and the allocations that fail.                    *)
(***************************************************************************)
DefaultOptions ==
    [user_all |-> CS_UNSPECIFIED, user_iall |-> CS_UNSPECIFIED,
     user_csp |-> AVCOL_SPC_UNSPECIFIED, user_icsp |-> AVCOL_SPC_UNSPECIFIED,
     user_rng |-> AVCOL_RANGE_UNSPECIFIED, user_irng |-> AVCOL_RANGE_UNSPECIFIED,
     user_trc |-> AVCOL_TRC_UNSPECIFIED, user_itrc |-> AVCOL_TRC_UNSPECIFIED,
     user_prm |-> AVCOL_PRI_UNSPECIFIED, user_iprm |-> AVCOL_PRI_UNSPECIFIED,
     user_format |-> AV_PIX_FMT_NONE, fast_mode |-> FALSE,
     dither |-> DITHER_NONE, wp_adapt |-> WP_ADAPT_BRADFORD]

OptionValues ==
    [user_all : {CS_UNSPECIFIED, CS_BT709, CS_BT2020},
     user_iall : {CS_UNSPECIFIED, CS_BT2020},
     user_csp : {AVCOL_SPC_UNSPECIFIED, AVCOL_SPC_BT2020_NCL},
     user_icsp : {AVCOL_SPC_UNSPECIFIED, AVCOL_SPC_BT709},
     user_rng : {AVCOL_RANGE_UNSPECIFIED, AVCOL_RANGE_JPEG},
     user_irng : {AVCOL_RANGE_UNSPECIFIED, AVCOL_RANGE_MPEG},
     user_trc : {AVCOL_TRC_UNSPECIFIED, AVCOL_TRC_LOG},
     user_itrc : {AVCOL_TRC_UNSPECIFIED, AVCOL_TRC_LINEAR},
     user_prm : {AVCOL_PRI_UNSPECIFIED, AVCOL_PRI_BT2020},
     user_iprm : {AVCOL_PRI_UNSPECIFIED, AVCOL_PRI_BT709},
     user_format : {AV_PIX_FMT_NONE, "yuv420p", "yuv444p", "yuv420p16"},
     fast_mode : BOOLEAN,
     dither : {DITHER_NONE, DITHER_FSB},
     wp_adapt : {WP_ADAPT_BRADFORD}]

NbSet(o) == Cardinality({k \in DOMAIN o : o[k] # DefaultOptions[k]})

UserOptions == {o \in OptionValues : NbSet(o) <= MaxUserOptions}

\* the negotiated input format counts as a setting when it is not yuv420p
InputFormats(o) ==
    {f \in pix_fmts : NbSet(o) + (IF f = "yuv420p" THEN 0 ELSE 1) <= MaxUserOptions}

\* config_props: the output link has the input link's size; the output
\* format is the pinned one, or else the input's
Links(o) ==
    {[in_format |-> f, out_format |-> IF o.user_format = AV_PIX_FMT_NONE
                                      THEN f ELSE o.user_format,
      w |-> 16, h |-> 2 * MaxHalfHeight, nb_threads |-> MaxThreads] : f \in InputFormats(o)}

Frames(lnk) ==
    [format : {lnk.in_format}, width : {lnk.w},
     height : {lnk.h},
     color_primaries : {AVCOL_PRI_BT709},
     color_trc : {AVCOL_TRC_BT709, AVCOL_TRC_LINEAR},
     colorspace : {AVCOL_SPC_BT709, AVCOL_SPC_BT2020_NCL},
     color_range : {AVCOL_RANGE_UNSPECIFIED, AVCOL_RANGE_MPEG, AVCOL_RANGE_JPEG},
     data : {[pixels |-> "input"]},
     alpha : {alpha_plane(lnk.in_format, lnk.h)},
     linesize : {linesizes(lnk.in_format,
                           FFALIGN(row_bytes(lnk.in_format, lnk.w), 32))}]

Faults == {"none"}

Init ==
    /\ \E o \in UserOptions : /\ link \in Links(o)
                             /\ s = ColorSpaceContext(o)
    /\ in_frame = NULL
    /\ out_frame = NULL
    /\ ret = 0
    /\ exec = NoExec
    /\ jobs = <<>>
    /\ warnings = 0

FilterFrame ==
    \E in \in Frames(link), fault \in Faults :
        \E r \in {filter_frame(s, link, in, fault)} :
           /\ s' = r.s
           /\ in_frame' = in
           /\ out_frame' = r.out
           /\ ret' = r.ret
           /\ exec' = r.exec
           /\ warnings' = warnings + r.exec.warns
           /\ UNCHANGED <<link, jobs>>

Next == FilterFrame

Spec == Init /\ [][Next]_vars

(***************************************************************************)
(* The instance from the configuration of its links on, in a host whose    *)
(* allocations can fail and whose frames can carry a range tag that is not *)
(* one of the enumeration.  The input link has a size of either parity;    *)
(* the host sends frames only over a link that config_props accepted.      *)
(***************************************************************************)
\* config_props without the test of the size
config_props_any_size(lnk) ==
    [res |-> 0,
     link |-> [lnk EXCEPT !.w = lnk.inlink.w, !.h = lnk.inlink.h,
                          !.configured = TRUE]]

config_props(lnk) ==
    IF lnk.inlink.w % 2 # 0 \/ lnk.inlink.h % 2 # 0
    THEN [res |-> AVERROR_PATCHWELCOME, link |-> lnk]
    ELSE [res |-> 0,
          link |-> [lnk EXCEPT !.w = lnk.inlink.w, !.h = lnk.inlink.h,
                               !.configured = TRUE]]

\* the sizes of the input link
InlinkSizes ==
    {[w |-> 16, h |-> 2 * MaxHalfHeight], [w |-> 15, h |-> 2 * MaxHalfHeight],
     [w |-> 16, h |-> 2 * MaxHalfHeight - 1]}

\* the links after query_formats, before config_props
HostLinks(o) ==
    {[in_format |-> f, out_format |-> IF o.user_format = AV_PIX_FMT_NONE
                                      THEN f ELSE o.user_format,
      w |-> 0, h |-> 0, nb_threads |-> MaxThreads,
      inlink |-> sz, configured |-> FALSE] :
     f \in InputFormats(o), sz \in InlinkSizes}

HostFrames(lnk) ==
    [format : {lnk.in_format}, width : {lnk.inlink.w},
     height : {lnk.inlink.h},
     color_primaries : {AVCOL_PRI_BT709, AVCOL_PRI_BT2020},
     color_trc : {AVCOL_TRC_BT709},
     colorspace : {AVCOL_SPC_BT709},
     color_range : {AVCOL_RANGE_UNSPECIFIED, AVCOL_RANGE_JPEG, AVCOL_RANGE_NB},
     data : {[pixels |-> "input"]},
     alpha : {alpha_plane(lnk.in_format, lnk.inlink.h)},
     linesize : {linesizes(lnk.in_format,
                           FFALIGN(row_bytes(lnk.in_format, lnk.inlink.w), 32))}]

\* the calls that can fail among those filter_frame makes for the frame in
\* from the context s0, r0 being what it does when none of them fails: the
\* two of the output frame, the allocation of the scratch buffers when the
\* size changed, of the half-float tables that are missing (once the format
\* gate has let a half-float frame through), of the LUTs when
\* they are rebuilt, the frame copy, and the downstream filter
calls_made(s0, in, r0) ==
    {"out", "props"}
    \cup (IF FFALIGN(in.width * pixel_size(in), 32) * in.height # s0.rgb_sz
          THEN {"scratch"} ELSE {})
    \cup (IF r0.exec.cfg # "none" /\ r0.s.is_float16
          THEN (IF s0.f2h_tbl = NULL THEN {"f2h_tbl"} ELSE {})
               \cup (IF s0.h2f_tbl = NULL THEN {"h2f_tbl"} ELSE {})
          ELSE {})
    \cup (IF "lin_lut" \in r0.exec.built THEN {"lin_lut"} ELSE {})
    \cup (IF r0.exec.fn = "av_frame_copy" THEN {"copy"} ELSE {})
    \cup (IF r0.exec.forwarded THEN {"ff_filter_frame"} ELSE {})

HostInit ==
    /\ \E o \in UserOptions : /\ link \in HostLinks(o)
                             /\ s = ColorSpaceContext(o)
    /\ in_frame = NULL
    /\ out_frame = NULL
    /\ ret = 0
    /\ exec = NoExec
    /\ jobs = <<>>
    /\ warnings = 0

ConfigProps ==
    /\ ~link.configured
    /\ ret = 0
    /\ \E r \in {config_props(link)} :
          /\ link' = r.link
          /\ ret' = r.res
    /\ UNCHANGED <<s, in_frame, out_frame, exec, jobs, warnings>>

HostFilterFrame ==
    /\ link.configured
    /\ \E in \in HostFrames(link) :
        \E r0 \in {filter_frame(s, link, in, "none")} :
        \E fault \in {"none"} \cup calls_made(s, in, r0) :
          \E r \in {IF fault = "none" THEN r0
                    ELSE filter_frame(s, link, in, fault)} :
             /\ s' = r.s
             /\ in_frame' = in
             /\ out_frame' = r.out
             /\ ret' = r.ret
             /\ exec' = [r.exec EXCEPT !.fault = fault]
             /\ warnings' = warnings + r.exec.warns
             /\ UNCHANGED <<link, jobs>>

HostNext == ConfigProps \/ HostFilterFrame

SpecHost == HostInit /\ [][HostNext]_vars

(***************************************************************************)
(* The slice jobs of one dispatched frame.  ff_filter_execute runs n_jobs  *)
(* calls of the slice function concurrently, each with its job_nr, all on  *)
(* the one context s.  A job is at pc = 0 before its first kernel, at      *)
(* pc = k while it runs the k-th kernel of the pipeline, and past the last *)
(* one when it has returned; before it returns, a job of the float         *)
(* pipelines copies its rows of the alpha plane when the input has one.    *)
(***************************************************************************)
\* the scratch argument of the kernel: every job passes s->dither_scratch
stage_scratch(s0, st) ==
    IF st.op = "rgb2yuv_fsb" THEN s0.dither_scratch ELSE NULL

ff_filter_execute(in, n) ==
    [j \in 1 .. n |->
        [job_nr |-> j - 1, rows |-> slice_rows(j - 1, n, in.height),
         pc |-> 0, scratch |-> NULL, alpha |-> FALSE]]

\* the frames the jobs are run on: a frame from upstream may have its rows
\* further apart than the rows of a frame of ff_get_video_buffer are (a
\* cropped frame keeps the linesize of the uncropped one)
SliceFrames(lnk) ==
    Frames(lnk) \cup
    (IF has_alpha(lnk.in_format)
     THEN {[f EXCEPT !.linesize =
               linesizes(lnk.in_format,
                         FFALIGN(row_bytes(lnk.in_format, lnk.w), 32) + 32)] :
           f \in Frames(lnk)}
     ELSE {})

\* the first frame of an instance, at the point filter_frame has called
\* ff_filter_execute
SliceInit ==
    \E o \in UserOptions :
        /\ link \in Links(o)
        /\ \E in \in SliceFrames(link) :
              \E r \in {filter_frame(ColorSpaceContext(o), link, in, "none")} :
                 /\ r.ret = 0
                 /\ r.exec.n_jobs > 0
                 /\ s = r.s
                 /\ in_frame = in
                 /\ out_frame = [r.out EXCEPT !.alpha = get_video_buffer(link, in).alpha]
                 /\ ret = r.ret
                 /\ exec = [r.exec EXCEPT !.forwarded = FALSE]
                 /\ jobs = ff_filter_execute(in, r.exec.n_jobs)
                 /\ warnings = r.exec.warns

RunStage(j) ==
    /\ jobs[j].pc < Len(exec.stages)
    /\ jobs' = [jobs EXCEPT ![j].pc = @ + 1,
                            ![j].scratch =
                                stage_scratch(s, exec.stages[jobs[j].pc + 1])]
    /\ UNCHANGED <<s, link, in_frame, out_frame, ret, exec, warnings>>

\* the alpha loop of convert_f16 / convert_f32
CopyAlpha(j) ==
    /\ jobs[j].pc = Len(exec.stages)
    /\ s.is_float
    /\ in_frame.alpha # NULL
    /\ ~jobs[j].alpha
    /\ out_frame' = [out_frame EXCEPT !.alpha =
                        copy_alpha(@, in_frame, out_frame,
                                   jobs[j].rows.h1, jobs[j].rows.h2)]
    /\ jobs' = [jobs EXCEPT ![j].alpha = TRUE]
    /\ UNCHANGED <<s, link, in_frame, ret, exec, warnings>>

ReturnJob(j) ==
    /\ jobs[j].pc = Len(exec.stages)
    /\ (s.is_float /\ in_frame.alpha # NULL) => jobs[j].alpha
    /\ jobs' = [jobs EXCEPT ![j].pc = @ + 1, ![j].scratch = NULL]
    /\ UNCHANGED <<s, link, in_frame, out_frame, ret, exec, warnings>>

\* ff_filter_frame(outlink, out), once ff_filter_execute has returned
Forward ==
    /\ ~exec.forwarded
    /\ \A j \in DOMAIN jobs : jobs[j].pc > Len(exec.stages)
    /\ exec' = [exec EXCEPT !.forwarded = TRUE]
    /\ UNCHANGED <<s, link, in_frame, out_frame, ret, jobs, warnings>>

SliceNext ==
    \/ \E j \in DOMAIN jobs : RunStage(j)
    \/ \E j \in DOMAIN jobs : CopyAlpha(j)
    \/ \E j \in DOMAIN jobs : ReturnJob(j)
    \/ Forward

SpecSlices == SliceInit /\ [][SliceNext]_vars

(***************************************************************************)
(* Frames whose size varies from one frame to the next, on an instance     *)
(* with all=bt709 and either dither mode.  filter_frame sizes the scratch  *)
(* buffers, configures and hands the frame to ff_filter_execute; each job  *)
(* then runs convert on its rows, and the next frame comes once all the    *)
(* jobs have returned.                                                     *)
(***************************************************************************)
FrameWidths == {16, 32}

SizeOptions ==
    {[DefaultOptions EXCEPT !.user_all = CS_BT709, !.dither = d] :
     d \in {DITHER_NONE, DITHER_FSB}}

SizeLinks ==
    {[in_format |-> "yuv420p", out_format |-> "yuv420p",
      w |-> 16, h |-> 2 * MaxHalfRows, nb_threads |-> t] : t \in 1 .. MaxWorkers}

\* linear-light frames, which take the general pipeline through s->rgb
SizeFrames(lnk) ==
    [format : {lnk.in_format}, width : FrameWidths,
     height : {2 * hh : hh \in 1 .. MaxHalfRows},
     color_primaries : {AVCOL_PRI_BT709},
     color_trc : {AVCOL_TRC_LINEAR},
     colorspace : {AVCOL_SPC_BT709},
     color_range : {AVCOL_RANGE_MPEG},
     data : {[pixels |-> "input"]},
     alpha : {NULL},
     linesize : {linesizes(lnk.in_format, 32)}]

SizeInit ==
    /\ \E o \in SizeOptions : s = ColorSpaceContext(o)
    /\ link \in SizeLinks
    /\ in_frame = NULL
    /\ out_frame = NULL
    /\ ret = 0
    /\ exec = NoExec
    /\ jobs = <<>>
    /\ warnings = 0

SizeFilterFrame ==
    /\ \A j \in DOMAIN jobs : jobs[j].pc > Len(exec.stages)
    /\ \E in \in SizeFrames(link) :
          \E r \in {filter_frame(s, link, in, "none")} :
             /\ s' = r.s
             /\ in_frame' = in
             /\ out_frame' = r.out
             /\ ret' = r.ret
             /\ exec' = r.exec
             /\ jobs' = ff_filter_execute(in, r.exec.n_jobs)
             /\ warnings' = warnings + r.exec.warns
             /\ UNCHANGED link

\* the job j runs convert from its first kernel to its return
SizeConvert(j) ==
    /\ jobs[j].pc = 0
    /\ jobs' = [jobs EXCEPT ![j].pc = Len(exec.stages) + 1]
    /\ UNCHANGED <<s, link, in_frame, out_frame, ret, exec, warnings>>

SizeNext ==
    \/ SizeFilterFrame
    \/ \E j \in DOMAIN jobs : SizeConvert(j)

SpecSizes == SizeInit /\ [][SizeNext]_vars

(***************************************************************************)
(* The values of the coefficient tables.  The double matrices are          *)
(* evaluated in exact rational arithmetic, a fraction being a record       *)
(* [n, d] in lowest terms with d > 0; lrint rounds the exact value, half   *)
(* to even.  Every intermediate value is kept below 2^31.                  *)
(***************************************************************************)
Abs(x) == IF x < 0 THEN -x ELSE x

RECURSIVE Gcd(_, _)
Gcd(a, b) == IF b = 0 THEN Abs(a) ELSE Gcd(b, a % Abs(b))

Frac(n, d) ==
    LET g == Gcd(n, d)
        m == IF g = 0 THEN 1 ELSE g
    IN IF d < 0 THEN [n |-> -(n \div m), d |-> -(d \div m)]
       ELSE [n |-> n \div m, d |-> d \div m]

FMul(x, y) ==
    LET g1 == Gcd(x.n, y.d)
        g2 == Gcd(y.n, x.d)
    IN Frac((x.n \div g1) * (y.n \div g2), (x.d \div g2) * (y.d \div g1))

FAdd(x, y) ==
    LET g == Gcd(x.d, y.d)
    IN Frac(x.n * (y.d \div g) + y.n * (x.d \div g), x.d * (y.d \div g))

FNeg(x) == [n |-> -x.n, d |-> x.d]

FDiv(x, y) == FMul(x, Frac(y.d, y.n))

\* ff_fill_rgb2yuv_table: the RGB->YUV matrix of the luma coefficients
ff_fill_rgb2yuv_table(coeffs) ==
    LET cr == Frac(coeffs.cr, 10000)    \* av_q2d of AVRational{num, 10000}
        cg == Frac(coeffs.cg, 10000)
        cb == Frac(coeffs.cb, 10000)
        half == Frac(1, 2)
        bscale == FDiv(half, FAdd(cb, Frac(-1, 1)))
        rscale == FDiv(half, FAdd(cr, Frac(-1, 1)))
    IN <<<<cr, cg, cb>>,
         <<FMul(bscale, cr), FMul(bscale, cg), half>>,
         <<half, FMul(rscale, cg), FMul(rscale, cb)>>>>

\* ff_matrix_invert_3x3: the inverse by cofactors and determinant
ff_matrix_invert_3x3(in) ==
    LET Minor(a, b, c, d) == FAdd(FMul(a, b), FNeg(FMul(c, d)))
        o00 == Minor(in[2][2], in[3][3], in[3][2], in[2][3])
        o01 == FNeg(Minor(in[1][2], in[3][3], in[3][2], in[1][3]))
        o02 == Minor(in[1][2], in[2][3], in[2][2], in[1][3])
        det == FAdd(FAdd(FMul(in[1][1], o00), FMul(in[2][1], o01)),
                    FMul(in[3][1], o02))
        o10 == FNeg(Minor(in[2][1], in[3][3], in[3][1], in[2][3]))
        o11 == Minor(in[1][1], in[3][3], in[3][1], in[1][3])
        o12 == FNeg(Minor(in[1][1], in[2][3], in[2][1], in[1][3]))
        o20 == Minor(in[2][1], in[3][2], in[3][1], in[2][2])
        o21 == FNeg(Minor(in[1][1], in[3][2], in[3][1], in[1][2]))
        o22 == Minor(in[1][1], in[2][2], in[2][1], in[1][2])
    IN <<<<FDiv(o00, det), FDiv(o01, det), FDiv(o02, det)>>,
         <<FDiv(o10, det), FDiv(o11, det), FDiv(o12, det)>>,
         <<FDiv(o20, det), FDiv(o21, det), FDiv(o22, det)>>>>

\* ff_matrix_mul_3x3(dst, src1, src2): the entry dst[m][n] of src2 x src1
ff_matrix_mul_3x3(src1, src2, m, n) ==
    FAdd(FAdd(FMul(src2[m + 1][1], src1[1][n + 1]),
              FMul(src2[m + 1][2], src1[2][n + 1])),
         FMul(src2[m + 1][3], src1[3][n + 1]))

\* the value of a double matrix of the context: never filled (all zero),
\* an RGB->YUV matrix, or the inverse of one
dbl_coeffs(dbl) ==
    IF dbl = ZeroCoeffs
    THEN [i \in 1 .. 3 |-> [j \in 1 .. 3 |-> Frac(0, 1)]]
    ELSE IF "inverse_of" \in DOMAIN dbl
    THEN ff_matrix_invert_3x3(ff_fill_rgb2yuv_table(dbl.inverse_of.rgb2yuv_of))
    ELSE ff_fill_rgb2yuv_table(dbl.rgb2yuv_of)

\* floor and remainder of a * b / c for a, b >= 0 and c > 0, by doubling
RECURSIVE MulDiv(_, _, _)
MulDiv(a, b, c) ==
    IF b = 0 THEN [q |-> 0, r |-> 0]
    ELSE LET h == MulDiv(a, b \div 2, c)
             t == IF h.r >= c - h.r
                  THEN [q |-> 2 * h.q + 1, r |-> h.r - (c - h.r)]
                  ELSE [q |-> 2 * h.q, r |-> h.r + h.r]
             ar == a % c
         IN IF b % 2 = 0 THEN t
            ELSE IF t.r >= c - ar
            THEN [q |-> t.q + (a \div c) + 1, r |-> t.r - (c - ar)]
            ELSE [q |-> t.q + (a \div c), r |-> t.r + ar]

\* lrint(x * y): the product of two fractions rounded to the nearest
\* integer, ties to even
lrint(x, y) ==
    LET g1 == Gcd(x.n, y.d)
        g2 == Gcd(y.n, x.d)
        a == Abs(x.n \div g1)
        b == Abs(y.n \div g2)
        c == (x.d \div g2) * (y.d \div g1)
        f == MulDiv(a, b, c)
        up == f.r > c - f.r \/ (f.r = c - f.r /\ f.q % 2 = 1)
        q == IF up THEN f.q + 1 ELSE f.q
    IN IF (x.n < 0) # (y.n < 0) THEN -q ELSE q

\* s->yuv2rgb_coeffs of the table t, each coefficient in its 8 lanes (lane 0
\* is computed, the others copy it):
\* [n][m] = lrint(28672 * bits * yuv2rgb[n][m] / in_rng), in_rng by column m
yuv2rgb_coeffs(t) ==
    Bind(dbl_coeffs(t.dbl), LAMBDA yuv2rgb :
       [n \in 0 .. 2 |-> [m \in 0 .. 2 |->
          Bind(lrint(FMul(Frac(28672, IF m = 0 THEN t.y_rng ELSE t.uv_rng),
                          Frac(t.bits, 1)),
                     yuv2rgb[n + 1][m + 1]),
               LAMBDA v : [o \in 0 .. 7 |-> v])]])

\* s->rgb2yuv_coeffs with the width of the range taken by column
rgb2yuv_coeffs_by_column(t) ==
    Bind(dbl_coeffs(t.dbl), LAMBDA rgb2yuv :
       [n \in 0 .. 2 |-> [m \in 0 .. 2 |->
          Bind(lrint(FMul(Frac(t.bits, 1),
                          Frac(IF m = 0 THEN t.y_rng ELSE t.uv_rng, 28672)),
                     rgb2yuv[n + 1][m + 1]),
               LAMBDA v : [o \in 0 .. 7 |-> v])]])

\* s->rgb2yuv_coeffs of the table t:
\* [n][m] = lrint(bits * out_rng * rgb2yuv[n][m] / 28672), out_rng by row n
rgb2yuv_coeffs(t) ==
    Bind(dbl_coeffs(t.dbl), LAMBDA rgb2yuv :
       [n \in 0 .. 2 |-> [m \in 0 .. 2 |->
          Bind(lrint(FMul(Frac(t.bits, 1),
                          Frac(IF n = 0 THEN t.y_rng ELSE t.uv_rng, 28672)),
                     rgb2yuv[n + 1][m + 1]),
               LAMBDA v : [o \in 0 .. 7 |-> v])]])

\* s->yuv2yuv_coeffs[m][n] of the table t:
\* lrint(16384 * yuv2yuv[m][n] * out_rng * (1 << idepth) /
\*       (in_rng * (1 << odepth))), out_rng by row m and in_rng by column n
yuv2yuv_coeffs(t, m, n) ==
    Bind(lrint(FMul(FMul(Frac(16384, 1),
                         Frac(IF m = 0 THEN t.out_y_rng ELSE t.out_uv_rng,
                              IF n = 0 THEN t.in_y_rng ELSE t.in_uv_rng)),
                    Frac(Shl(t.idepth), Shl(t.odepth))),
               ff_matrix_mul_3x3(dbl_coeffs(t.yuv2rgb), dbl_coeffs(t.rgb2yuv),
                                 m, n)),
         LAMBDA v : [o \in 0 .. 7 |-> v])

(***************************************************************************)
(* An instance converting between every pair of matrices, ranges and       *)
(* integer depths, the input range tagged or not: primaries and transfer   *)
(* are the same on both sides, so each converted frame builds the three    *)
(* tables.                                                                 *)
(***************************************************************************)
CoeffMatrices ==
    {AVCOL_SPC_BT709, AVCOL_SPC_BT470BG, AVCOL_SPC_SMPTE170M,
     AVCOL_SPC_SMPTE240M, AVCOL_SPC_BT2020_NCL}

CoeffInit ==
    /\ \E m \in CoeffMatrices, r \in {AVCOL_RANGE_MPEG, AVCOL_RANGE_JPEG} :
          s = ColorSpaceContext([DefaultOptions EXCEPT !.user_all = CS_BT709,
                                                       !.user_csp = m,
                                                       !.user_rng = r])
    /\ \E f, g \in {"yuv420p", "yuv420p10", "yuv420p12"} :
          link = [in_format |-> f, out_format |-> g, w |-> 16, h |-> 2,
                  nb_threads |-> 1]
    /\ in_frame = NULL
    /\ out_frame = NULL
    /\ ret = 0
    /\ exec = NoExec
    /\ jobs = <<>>
    /\ warnings = 0

CoeffFilterFrame ==
    \E in \in
      [format : {link.in_format}, width : {link.w}, height : {link.h},
       color_primaries : {AVCOL_PRI_BT709},
       color_trc : {AVCOL_TRC_BT709},
       colorspace : CoeffMatrices,
       color_range : {AVCOL_RANGE_UNSPECIFIED, AVCOL_RANGE_MPEG, AVCOL_RANGE_JPEG},
       data : {[pixels |-> "input"]},
       alpha : {NULL},
       linesize : {linesizes(link.in_format, 32)}] :
       \E r \in {filter_frame(s, link, in, "none")} :
          /\ s' = r.s
          /\ in_frame' = in
          /\ out_frame' = r.out
          /\ ret' = r.ret
          /\ exec' = r.exec
          /\ UNCHANGED <<link, jobs, warnings>>

SpecCoeffs == CoeffInit /\ [][CoeffFilterFrame]_vars

(***************************************************************************)
(* An instance converting between primaries of equal and of different      *)
(* whitepoints under each whitepoint adaptation mode.                      *)
(***************************************************************************)
AdaptPrimaries == {AVCOL_PRI_BT709, AVCOL_PRI_BT470M, AVCOL_PRI_BT2020}

AdaptInit ==
    /\ \E p \in AdaptPrimaries,
          a \in {WP_ADAPT_BRADFORD, WP_ADAPT_VON_KRIES, WP_ADAPT_IDENTITY},
          f \in BOOLEAN :
          s = ColorSpaceContext([DefaultOptions EXCEPT !.user_all = CS_BT709,
                                                       !.user_prm = p,
                                                       !.wp_adapt = a,
                                                       !.fast_mode = f])
    /\ link = [in_format |-> "yuv420p", out_format |-> "yuv420p", w |-> 16,
               h |-> 2, nb_threads |-> 1]
    /\ in_frame = NULL
    /\ out_frame = NULL
    /\ ret = 0
    /\ exec = NoExec
    /\ jobs = <<>>
    /\ warnings = 0

AdaptFilterFrame ==
    \E in \in
      [format : {link.in_format}, width : {link.w}, height : {link.h},
       color_primaries : AdaptPrimaries,
       color_trc : {AVCOL_TRC_BT709, AVCOL_TRC_LINEAR},
       colorspace : {AVCOL_SPC_BT709},
       color_range : {AVCOL_RANGE_MPEG},
       data : {[pixels |-> "input"]},
       alpha : {NULL},
       linesize : {linesizes(link.in_format, 32)}] :
       \E r \in {filter_frame(s, link, in, "none")} :
          /\ s' = r.s
          /\ in_frame' = in
          /\ out_frame' = r.out
          /\ ret' = r.ret
          /\ exec' = r.exec
          /\ UNCHANGED <<link, jobs, warnings>>

SpecAdapt == AdaptInit /\ [][AdaptFilterFrame]_vars

(***************************************************************************)
(* apply_lut on one sample of the intermediate RGB planes: the job holds   *)
(* the int16 sample it reads, and after the step the index it read the     *)
(* table at.                                                               *)
(***************************************************************************)
\* the entries of lin_lut and of delin_lut
LutSize == 32768

\* av_clip_uintp2(a, p): a & ~((1 << p) - 1) ? (~a) >> 31 & ((1 << p) - 1) : a
av_clip_uintp2(a, p) ==
    IF a \div Shl(p) # 0
    THEN (IF -a - 1 < 0 THEN Shl(p) - 1 ELSE 0)
    ELSE a

\* the table index of apply_lut without the bias of 2048
apply_lut_unbiased(v) == av_clip_uintp2(v, 15)

\* the table index apply_lut reads for the sample v
apply_lut(v) == av_clip_uintp2(2048 + v, 15)

LutInit ==
    /\ s = ColorSpaceContext(DefaultOptions)
    /\ link = NULL
    /\ in_frame = NULL
    /\ out_frame = NULL
    /\ ret = 0
    /\ exec = NoExec
    /\ \E v \in -32768 .. 32767 : jobs = <<[pc |-> 0, data |-> v]>>
    /\ warnings = 0

ApplyLut ==
    /\ jobs[1].pc = 0
    /\ jobs' = <<[pc |-> 1, data |-> jobs[1].data, index |-> apply_lut(jobs[1].data)]>>
    /\ UNCHANGED <<s, link, in_frame, out_frame, ret, exec, warnings>>

SpecLut == LutInit /\ [][ApplyLut]_vars

(***************************************************************************)
(* libswscale, rgb2rgb_unscaled_template.c: the four unscaled converters   *)
(* between packed RGB(A) and planar GBR(A).  The template is compiled for  *)
(* every pair of sample kinds: "16" (unsigned integers of src_bpp/dst_bpp  *)
(* bits in 16-bit words), "f16" (half floats) and "f32" (floats).  A       *)
(* sample is [bits |-> n], the word as stored; the result of a conversion  *)
(* through float arithmetic is [output |-> ...], that arithmetic being     *)
(* left uninterpreted.  A packed image is a sequence of rows, each the     *)
(* sequence of its components; a planar image is a sequence of 4 planes,   *)
(* each a sequence of rows, the alpha plane NoPlane when absent.           *)
(***************************************************************************)
\* the plane pointer _src[3] or _dst[3] of an image without alpha
NoPlane == <<>>

RECURSIVE BitOr(_, _)
BitOr(a, b) ==
    IF a = 0 THEN b
    ELSE IF b = 0 THEN a
    ELSE (IF a % 2 = 1 \/ b % 2 = 1 THEN 1 ELSE 0) + 2 * BitOr(a \div 2, b \div 2)

av_bswap16(x) == (x % 256) * 256 + (x \div 256)

av_bswap32(x) ==
    (x % 256) * 16777216 + ((x \div 256) % 256) * 65536
    + ((x \div 65536) % 256) * 256 + (x \div 16777216)

SRC_BSWAP(p, c) ==
    [bits |-> IF p.src_kind = "f32" THEN av_bswap32(c.bits) ELSE av_bswap16(c.bits)]

DST_BSWAP(p, v) ==
    IF "bits" \in DOMAIN v
    THEN [bits |-> IF p.dst_kind = "f32" THEN av_bswap32(v.bits)
                   ELSE av_bswap16(v.bits)]
    ELSE [bswap |-> v]

\* re-quantization filling the low bits with zeros
INPUT_UINT_zero_fill(x, src_bpp, dst_bpp) ==
    (x * Shl(16 - src_bpp)) \div Shl(16 - dst_bpp)

\* re-quantization using bit replication:
\* (x << scale_high | x >> scale_low) >> shift
INPUT_UINT(x, src_bpp, dst_bpp) ==
    BitOr(x * Shl(16 - src_bpp), x \div Shl((src_bpp - 8) * 2))
        \div Shl(16 - dst_bpp)

\* OUTPUT(component), stored in a DST_TYPE
OUTPUT(p, c) ==
    IF p.src_kind = "16" /\ p.dst_kind = "16"
    THEN [bits |-> INPUT_UINT(c.bits, p.src_bpp, p.dst_bpp) % 65536]
    ELSE IF p.src_kind = p.dst_kind THEN c
    ELSE [output |-> c.bits, src_kind |-> p.src_kind, dst_kind |-> p.dst_kind,
          src_bpp |-> p.src_bpp, dst_bpp |-> p.dst_bpp]

ALPHA_VALUE(p) ==
    CASE p.dst_kind = "f16" -> 15360
      [] p.dst_kind = "f32" -> 1065353216
      [] OTHER              -> 65535 \div Shl(16 - p.dst_bpp)

\* alpha_value without the byte swap
alpha_value_native(p) == [bits |-> ALPHA_VALUE(p)]

\* DST_TYPE alpha_value = swap >= 2 ? DST_BSWAP(ALPHA_VALUE) : ALPHA_VALUE
alpha_value(p) ==
    IF p.swap >= 2 THEN DST_BSWAP(p, [bits |-> ALPHA_VALUE(p)])
    ELSE [bits |-> ALPHA_VALUE(p)]

\* one component through the case of switch (swap)
swap_output(p, c) ==
    CASE p.swap = 3 -> DST_BSWAP(p, OUTPUT(p, SRC_BSWAP(p, c)))
      [] p.swap = 2 -> DST_BSWAP(p, OUTPUT(p, c))
      [] p.swap = 1 -> OUTPUT(p, SRC_BSWAP(p, c))
      [] OTHER      -> OUTPUT(p, c)

\* one iteration of the pixel loop of rgba_to_planar_gbrap: components
\* converted (conv), alpha written from alpha_value (fill), further
\* src_line++ (skip)
rgba_to_planar_gbrap_loop(p) ==
    CASE p.src_alpha /\ p.dst_alpha -> [conv |-> 4, fill |-> FALSE, skip |-> 0]
      [] p.dst_alpha                -> [conv |-> 3, fill |-> TRUE, skip |-> 0]
      [] p.src_alpha                -> [conv |-> 3, fill |-> FALSE, skip |-> 1]
      [] OTHER                      -> [conv |-> 3, fill |-> FALSE, skip |-> 0]

rgba_to_planar_gbrap(p, src) ==
    LET b == rgba_to_planar_gbrap_loop(p)
    IN [i \in 1 .. 4 |->
          IF i = 4 /\ ~p.dst_alpha THEN NoPlane
          ELSE [h \in 1 .. p.srcSliceH |-> [x \in 1 .. p.width |->
                  IF i = 4 /\ b.fill THEN alpha_value(p)
                  ELSE swap_output(p, src[h][(x - 1) * (b.conv + b.skip) + i])]]]

\* one iteration of the pixel loop of gbrap_to_packed_rgba
gbrap_to_packed_rgba_loop(p, src_alpha) ==
    CASE p.dst_alpha /\ ~src_alpha -> [conv |-> 3, fill |-> TRUE]
      [] p.dst_alpha /\ src_alpha  -> [conv |-> 4, fill |-> FALSE]
      [] OTHER                     -> [conv |-> 3, fill |-> FALSE]

gbrap_to_packed_rgba(p, src) ==
    LET b == gbrap_to_packed_rgba_loop(p, src[4] # NoPlane)
        n == b.conv + (IF b.fill THEN 1 ELSE 0)
    IN [h \in 1 .. p.srcSliceH |-> [j \in 1 .. p.width * n |->
          LET x == (j - 1) \div n + 1
              k == ((j - 1) % n) + 1
          IN IF k = 4 /\ b.fill THEN alpha_value(p)
             ELSE swap_output(p, src[k][h][x])]]

\* rdx, gdx, bdx, adx
packed_order(order) == IF order = 1 THEN <<2, 1, 0, 3>> ELSE <<0, 1, 2, 3>>

\* one iteration of the pixel loop of rgba_to_packed_rgba: case 2 has no
\* src_line++ after the three components when only the source has alpha
rgba_to_packed_rgba_loop(p) ==
    CASE p.src_alpha /\ p.dst_alpha ->
           [conv |-> 4, fill |-> FALSE, skip |-> 0, dest |-> 4]
      [] p.dst_alpha ->
           [conv |-> 3, fill |-> TRUE, skip |-> 0, dest |-> 4]
      [] p.src_alpha ->
           [conv |-> 3, fill |-> FALSE, skip |-> IF p.swap = 2 THEN 0 ELSE 1,
            dest |-> 3]
      [] OTHER ->
           [conv |-> 3, fill |-> FALSE, skip |-> 0, dest |-> 3]

rgba_to_packed_rgba(p, src) ==
    LET b == rgba_to_packed_rgba_loop(p)
        idx == packed_order(p.order)
    IN [h \in 1 .. p.srcSliceH |-> [j \in 1 .. p.width * b.dest |->
          LET x == (j - 1) \div b.dest
              m == CHOOSE m \in 1 .. 4 : idx[m] = (j - 1) % b.dest
          IN IF m = 4 /\ b.fill THEN alpha_value(p)
             ELSE swap_output(p, src[h][x * (b.conv + b.skip) + m])]]

gbrap_to_planar_gbrap(p, src) ==
    LET src_alpha == src[4] # NoPlane
        channels == IF p.dst_alpha /\ src_alpha THEN 4 ELSE 3
    IN [i \in 1 .. 4 |->
          IF i = 4 /\ ~p.dst_alpha THEN NoPlane
          ELSE [h \in 1 .. p.srcSliceH |-> [x \in 1 .. p.width |->
                  IF i <= channels THEN swap_output(p, src[i][h][x])
                  ELSE alpha_value(p)]]]

\* the parameters of a call: the kinds the template is compiled for and
\* the arguments of the converter
PixParams ==
    {p \in [src_kind : {"16", "f16", "f32"}, dst_kind : {"16", "f16", "f32"},
            src_bpp : {10, 16}, dst_bpp : {10, 16},
            src_alpha : BOOLEAN, dst_alpha : BOOLEAN,
            swap : 0 .. 3, order : 0 .. 1,
            width : 1 .. MaxWidth, srcSliceH : 1 .. MaxSliceH] :
       /\ p.src_kind # "16" => p.src_bpp = 16
       /\ p.dst_kind # "16" => p.dst_bpp = 16}

\* the component i of row h of a source image: every component has its own
\* value; a source whose bytes are swapped (swap 1 and 3) stores it swapped
src_sample(p, h, i) ==
    LET v == 3 * ((h - 1) * 4 * p.width + i) + 1
        c == [bits |-> CASE p.src_kind = "f16" -> 15360 + v
                         [] p.src_kind = "f32" -> 1056964608 + 256 * v
                         [] OTHER              -> v]
    IN IF p.swap \in {1, 3} THEN SRC_BSWAP(p, c) ELSE c

PixInit ==
    /\ s = NULL
    /\ link \in PixParams
    /\ in_frame \in
          {[layout |-> "packed",
            data |-> [h \in 1 .. link.srcSliceH |->
                        [i \in 1 .. link.width * (IF link.src_alpha THEN 4 ELSE 3) |->
                           src_sample(link, h, i)]]],
           [layout |-> "planar",
            data |-> [i \in 1 .. 4 |->
                        IF i = 4 /\ ~link.src_alpha THEN NoPlane
                        ELSE [h \in 1 .. link.srcSliceH |->
                                [x \in 1 .. link.width |->
                                   src_sample(link, h, (i - 1) * link.width + x)]]]]}
    /\ out_frame = NULL
    /\ ret = 0
    /\ exec = NoExec
    /\ jobs = <<>>
    /\ warnings = 0

Converted(fn, layout, data) ==
    /\ out_frame' = [layout |-> layout, data |-> data]
    /\ exec' = [exec EXCEPT !.fn = fn]
    /\ UNCHANGED <<s, link, in_frame, ret, jobs, warnings>>

RgbaToPlanarGbrap ==
    /\ out_frame = NULL
    /\ in_frame.layout = "packed"
    /\ Converted("rgba_to_planar_gbrap", "planar",
                 rgba_to_planar_gbrap(link, in_frame.data))

GbrapToPackedRgba ==
    /\ out_frame = NULL
    /\ in_frame.layout = "planar"
    /\ Converted("gbrap_to_packed_rgba", "packed",
                 gbrap_to_packed_rgba(link, in_frame.data))

RgbaToPackedRgba ==
    /\ out_frame = NULL
    /\ in_frame.layout = "packed"
    /\ Converted("rgba_to_packed_rgba", "packed",
                 rgba_to_packed_rgba(link, in_frame.data))

GbrapToPlanarGbrap ==
    /\ out_frame = NULL
    /\ in_frame.layout = "planar"
    /\ Converted("gbrap_to_planar_gbrap", "planar",
                 gbrap_to_planar_gbrap(link, in_frame.data))

SpecPixels ==
    PixInit /\ [][\/ RgbaToPlanarGbrap
                  \/ GbrapToPackedRgba
                  \/ RgbaToPackedRgba
                  \/ GbrapToPlanarGbrap]_vars

(***************************************************************************)
(* The integer requantiser of the template on one sample: a sample of      *)
(* src_bpp bits is converted to dst_bpp bits and back, as the round trip   *)
(* of tests/floatimg_cmp.c does with a whole image.                        *)
(***************************************************************************)
\* the integer depths: scale_low = (src_bpp - 8) * 2 and
\* scale_high = 16 - src_bpp are shift counts
MinBpp == 8

MaxBpp == 16

RequantInit ==
    /\ s = NULL
    /\ \E a \in MinBpp .. MaxBpp, b \in MinBpp .. MaxBpp :
          /\ a <= b
          /\ link = [src_bpp |-> a, dst_bpp |-> b]
          /\ \E x \in 0 .. Shl(a) - 1 : jobs = <<[pc |-> 0, x |-> x]>>
    /\ in_frame = NULL
    /\ out_frame = NULL
    /\ ret = 0
    /\ exec = NoExec
    /\ warnings = 0

\* srcFormat -> dstFormat
Widen ==
    /\ jobs[1].pc = 0
    /\ jobs' = <<[pc |-> 1, x |-> jobs[1].x,
                  y |-> swap_output([src_kind |-> "16", dst_kind |-> "16",
                                     src_bpp |-> link.src_bpp,
                                     dst_bpp |-> link.dst_bpp, swap |-> 0],
                                    [bits |-> jobs[1].x]).bits]>>
    /\ UNCHANGED <<s, link, in_frame, out_frame, ret, exec, warnings>>

\* dstFormat -> srcFormat
Narrow ==
    /\ jobs[1].pc = 1
    /\ jobs' = <<[pc |-> 2, x |-> jobs[1].x, y |-> jobs[1].y,
                  z |-> swap_output([src_kind |-> "16", dst_kind |-> "16",
                                     src_bpp |-> link.dst_bpp,
                                     dst_bpp |-> link.src_bpp, swap |-> 0],
                                    [bits |-> jobs[1].y]).bits]>>
    /\ UNCHANGED <<s, link, in_frame, out_frame, ret, exec, warnings>>

SpecRequant == RequantInit /\ [][Widen \/ Narrow]_vars

(***************************************************************************)
(* The properties.  They are stated over the frame last handled            *)
(* (in_frame), what filter_frame returned for it (ret, out_frame, exec)    *)
(* and the context it left (s).                                            *)
(***************************************************************************)
InDesc == av_pix_fmt_desc_get(link.in_format)

OutDesc == av_pix_fmt_desc_get(link.out_format)

\* a frame has been handled and filter_frame returned success
Handled == in_frame # NULL /\ ret = 0

\* the tags the handled frame is to be treated as having: the side-specific
\* input option, else the iall preset's table entry, else the frame's tag
EffInPrm ==
    IF s.user_iprm # AVCOL_PRI_UNSPECIFIED THEN s.user_iprm
    ELSE IF s.user_iall # CS_UNSPECIFIED THEN default_prm(s.user_iall)
    ELSE in_frame.color_primaries

EffInTrc ==
    IF s.user_itrc # AVCOL_TRC_UNSPECIFIED THEN s.user_itrc
    ELSE IF s.user_iall # CS_UNSPECIFIED THEN default_trc(s.user_iall)
    ELSE in_frame.color_trc

EffInCsp ==
    IF s.user_icsp # AVCOL_SPC_UNSPECIFIED THEN s.user_icsp
    ELSE IF s.user_iall # CS_UNSPECIFIED THEN default_csp(s.user_iall)
    ELSE in_frame.colorspace

EffInRng ==
    IF s.user_irng # AVCOL_RANGE_UNSPECIFIED THEN s.user_irng
    ELSE in_frame.color_range

\* effective input and output agree on every tag and on the pixel layout
SameTagsAndLayout ==
    /\ EffInPrm = out_frame.color_primaries
    /\ EffInTrc = out_frame.color_trc
    /\ EffInCsp = out_frame.colorspace
    /\ EffInRng = out_frame.color_range
    /\ InDesc.depth = OutDesc.depth
    /\ InDesc.log2_chroma_w = OutDesc.log2_chroma_w
    /\ InDesc.log2_chroma_h = OutDesc.log2_chroma_h

\* C1: when the effective input and output primaries, transfer, matrix,
\* range, bit depth and chroma subsampling of a successfully handled frame
\* are all identical, yuv2yuv_passthrough is set, no slice kernel is
\* dispatched and the output pixels are the frame-copy of the input,
\* whatever the dither option is.
C1_PassthroughCopies ==
    (Handled /\ SameTagsAndLayout) =>
        /\ s.yuv2yuv_passthrough
        /\ exec.fn = "av_frame_copy"
        /\ exec.n_jobs = 0
        /\ exec.stages = <<>>
        /\ out_frame.data = in_frame.data

C1_Witness ==
    /\ Handled
    /\ SameTagsAndLayout
    /\ s.dither = DITHER_FSB
    /\ exec.fn = "av_frame_copy"
    /\ out_frame.data = in_frame.data

\* the coefficients and kernels the effective tags of the handled frame call for
WantRangeIn == get_range_off(s, EffInRng, InDesc.depth)

WantRangeOut == get_range_off(s, out_frame.color_range, OutDesc.depth)

WantYuv2RgbDbl == fill_yuv2rgb_dbl(av_csp_luma_coeffs_from_avcsp(EffInCsp))

WantRgb2YuvDbl == fill_rgb2yuv_dbl(av_csp_luma_coeffs_from_avcsp(out_frame.colorspace))

\* C2: whenever the general integer pipeline is dispatched for a frame, the
\* yuv2rgb and rgb2yuv kernels are selected and their coefficients and
\* offsets are the ones computed from that frame's effective input and
\* output matrix, range and depth, whatever the earlier frames were.
C2_GeneralPipelineCoefficientsCurrent ==
    (Handled /\ exec.fn = "convert" /\ ~s.yuv2yuv_fastmode) =>
        /\ s.yuv2rgb = dsp_yuv2rgb((InDesc.depth - 8) \div 2,
                                   InDesc.log2_chroma_h + InDesc.log2_chroma_w)
        /\ s.yuv2rgb_coeffs = quant_yuv2rgb(WantYuv2RgbDbl, WantRangeIn.y_rng,
                                            WantRangeIn.uv_rng, InDesc.depth)
        /\ s.rgb2yuv = dsp_rgb2yuv((OutDesc.depth - 8) \div 2,
                                   OutDesc.log2_chroma_h + OutDesc.log2_chroma_w)
        /\ s.rgb2yuv_fsb = dsp_rgb2yuv_fsb((OutDesc.depth - 8) \div 2,
                                   OutDesc.log2_chroma_h + OutDesc.log2_chroma_w)
        /\ s.rgb2yuv_coeffs = quant_rgb2yuv(WantRgb2YuvDbl, WantRangeOut.y_rng,
                                            WantRangeOut.uv_rng, OutDesc.depth)
        /\ s.yuv_offset = <<WantRangeIn.off, WantRangeOut.off>>

\* C3: whenever the fused yuv2yuv fast path is dispatched for a frame, the
\* yuv2yuv kernel is selected and its coefficients and offsets are the ones
\* computed from that frame's effective input and output matrix, range and
\* depth, also when this call re-resolved neither side or only one.
C3_FastPathCoefficientsCurrent ==
    (Handled /\ exec.fn = "convert" /\ s.yuv2yuv_fastmode) =>
        /\ s.yuv2yuv = dsp_yuv2yuv((InDesc.depth - 8) \div 2,
                                   (OutDesc.depth - 8) \div 2,
                                   InDesc.log2_chroma_h + InDesc.log2_chroma_w)
        /\ s.yuv2yuv_coeffs =
              [yuv2rgb |-> WantYuv2RgbDbl, rgb2yuv |-> WantRgb2YuvDbl,
               in_y_rng |-> WantRangeIn.y_rng, in_uv_rng |-> WantRangeIn.uv_rng,
               out_y_rng |-> WantRangeOut.y_rng,
               out_uv_rng |-> WantRangeOut.uv_rng,
               idepth |-> InDesc.depth, odepth |-> OutDesc.depth]
        /\ s.yuv_offset = <<WantRangeIn.off, WantRangeOut.off>>

\* the kernels of the RGB -> RGB step, in the three pipelines
RgbStageOps ==
    {"apply_lut:lin", "multiply3x3", "apply_lut:delin",
     "apply_lut_f16:lin", "multiply3x3_f16", "apply_lut_f16:delin",
     "apply_linearize_f32", "multiply3x3_f32", "apply_delinearize_f32"}

\* C4: when rgb2rgb_passthrough is set, no dispatched slice kernel, of the
\* integer, the half-float or the float pipeline, runs a linearize, a 3x3
\* matrix or a delinearize stage.
C4_PassthroughSkipsRgbStages ==
    (Handled /\ exec.n_jobs > 0 /\ s.rgb2rgb_passthrough) =>
        \A k \in DOMAIN exec.stages : exec.stages[k].op \notin RgbStageOps

\* C5: with dither=fsb, every frame the kernels convert to a YUV output is
\* quantised by the rgb2yuv_fsb kernel.
C5_FsbQuantisesEveryConvertedFrame ==
    (Handled /\ s.dither = DITHER_FSB /\ exec.fn = "convert") =>
        \E k \in DOMAIN exec.stages : exec.stages[k].op = "rgb2yuv_fsb"

\* C6: no two slice jobs of a frame run the dithering kernel at the same
\* time on the same scratch rows.
C6_ScratchExclusive ==
    \A j, k \in DOMAIN jobs :
        (j # k /\ jobs[j].scratch # NULL) => jobs[j].scratch # jobs[k].scratch

\* C7: when a frame is handled successfully and the next frame is
\* identical to it, configuring the next one computes no coefficient table
\* and neither frees nor rebuilds the LUTs.
C7_IdenticalFrameReusesConfiguration ==
    [][(Handled /\ in_frame' = in_frame) =>
           (exec'.built = {} /\ ~exec'.freed)]_vars

C9_OutputTagsFromTable ==
    Handled =>
        /\ out_frame.color_primaries =
              (IF s.user_prm # AVCOL_PRI_UNSPECIFIED THEN s.user_prm
               ELSE default_prm(s.user_all))
        /\ out_frame.color_trc =
              (IF s.user_trc # AVCOL_TRC_UNSPECIFIED THEN s.user_trc
               ELSE default_trc(s.user_all))
        /\ out_frame.colorspace =
              (IF s.user_csp # AVCOL_SPC_UNSPECIFIED THEN s.user_csp
               ELSE default_csp(s.user_all))

\* C9, amended: the output frame's primaries, transfer and matrix are the
\* side-specific output option when set, else the all preset's table entry,
\* except that a table transfer of bt2020-10 becomes bt2020-12 when the
\* output format has 12 bits or more.
C9_OutputTagsFromTableByDepth ==
    Handled =>
        /\ out_frame.color_primaries =
              (IF s.user_prm # AVCOL_PRI_UNSPECIFIED THEN s.user_prm
               ELSE default_prm(s.user_all))
        /\ out_frame.color_trc =
              (IF s.user_trc # AVCOL_TRC_UNSPECIFIED THEN s.user_trc
               ELSE IF default_trc(s.user_all) = AVCOL_TRC_BT2020_10
                       /\ OutDesc.depth >= 12
                    THEN AVCOL_TRC_BT2020_12
               ELSE default_trc(s.user_all))
        /\ out_frame.colorspace =
              (IF s.user_csp # AVCOL_SPC_UNSPECIFIED THEN s.user_csp
               ELSE default_csp(s.user_all))

C9_Witness ==
    /\ Handled
    /\ s.user_trc = AVCOL_TRC_UNSPECIFIED
    /\ default_trc(s.user_all) = AVCOL_TRC_BT2020_10
    /\ OutDesc.depth >= 12
    /\ out_frame.color_trc = AVCOL_TRC_BT2020_12

\* C10: the output frame's range is the range option when set and the
\* input frame's own range tag otherwise; it is the output range the
\* configuration uses; and with neither range nor irange set the effective
\* input and output ranges are equal.
C10_OutputRangeInherited ==
    Handled =>
        /\ out_frame.color_range =
              (IF s.user_rng # AVCOL_RANGE_UNSPECIFIED THEN s.user_rng
               ELSE in_frame.color_range)
        /\ s.out_rng = out_frame.color_range
        /\ (s.user_rng = AVCOL_RANGE_UNSPECIFIED
            /\ s.user_irng = AVCOL_RANGE_UNSPECIFIED) => s.in_rng = s.out_rng

C10_Witness ==
    /\ Handled
    /\ s.user_rng = AVCOL_RANGE_UNSPECIFIED
    /\ s.user_irng = AVCOL_RANGE_UNSPECIFIED
    /\ in_frame.color_range = AVCOL_RANGE_JPEG
    /\ out_frame.color_range = AVCOL_RANGE_JPEG
    /\ s.in_rng = AVCOL_RANGE_JPEG
    /\ s.out_rng = AVCOL_RANGE_JPEG

\* the output primaries, transfer or matrix the options resolve to is
\* unspecified: neither the side-specific option nor the all preset gives it
OutTagMissing ==
    \/ (s.user_prm = AVCOL_PRI_UNSPECIFIED
        /\ default_prm(s.user_all) = AVCOL_PRI_UNSPECIFIED)
    \/ (s.user_trc = AVCOL_TRC_UNSPECIFIED
        /\ default_trc(s.user_all) = AVCOL_TRC_UNSPECIFIED)
    \/ (s.user_csp = AVCOL_SPC_UNSPECIFIED
        /\ default_csp(s.user_all) = AVCOL_SPC_UNSPECIFIED)

\* C11: when the output primaries, transfer or matrix the options resolve
\* to is unspecified, handling the frame fails with an error, nothing is
\* dispatched and no output frame is produced, whatever tags the input
\* frame carries: the output side takes nothing from the input's tags.
C11_OutputTagsRequired ==
    (in_frame # NULL /\ OutTagMissing) =>
        /\ ret < 0
        /\ out_frame = NULL
        /\ exec.n_jobs = 0
        /\ ~exec.forwarded

C11_Witness ==
    /\ in_frame # NULL
    /\ s.user_prm # AVCOL_PRI_UNSPECIFIED
    /\ s.user_trc # AVCOL_TRC_UNSPECIFIED
    /\ s.user_csp = AVCOL_SPC_UNSPECIFIED
    /\ s.user_all = CS_UNSPECIFIED
    /\ in_frame.colorspace = AVCOL_SPC_BT709
    /\ s.in_lumacoef # NULL
    /\ s.out_lumacoef = NULL
    /\ ret = AVERROR(EINVAL)

\* C16: once every slice job of a half-float or float frame with an alpha
\* plane has run, every row of the output alpha plane holds the bytes of
\* the same row of the input alpha plane.
C16_AlphaRowsCopied ==
    (exec.forwarded /\ s.is_float /\ in_frame.alpha # NULL) =>
        \A y \in 1 .. in_frame.height : out_frame.alpha[y] = in_frame.alpha[y]

\* C12: every call of get_range_off with the unspecified or the limited
\* range succeeds with off = 16 << (d - 8), y_rng = 219 << (d - 8) and
\* uv_rng = 224 << (d - 8); with the full range it succeeds with off = 0 and
\* y_rng = uv_rng = (256 << (d - 8)) - 1; with any other range it fails, and
\* so does the frame; and over all the frames of an instance the warning
\* about the unspecified range is logged at most once.
C12_RangeOffsets ==
    /\ \A r \in exec.ranges :
          /\ r.rng \in {AVCOL_RANGE_UNSPECIFIED, AVCOL_RANGE_MPEG} =>
                /\ r.res = 0
                /\ r.off = 16 * 2 ^ (r.depth - 8)
                /\ r.y_rng = 219 * 2 ^ (r.depth - 8)
                /\ r.uv_rng = 224 * 2 ^ (r.depth - 8)
          /\ r.rng = AVCOL_RANGE_JPEG =>
                /\ r.res = 0
                /\ r.off = 0
                /\ r.y_rng = 256 * 2 ^ (r.depth - 8) - 1
                /\ r.uv_rng = 256 * 2 ^ (r.depth - 8) - 1
          /\ r.rng \notin {AVCOL_RANGE_UNSPECIFIED, AVCOL_RANGE_MPEG,
                            AVCOL_RANGE_JPEG} =>
                /\ r.res < 0
                /\ ret = r.res
                /\ exec.cfg = "failed"
    /\ (in_frame # NULL /\ exec.cfg = "ok" /\ "yuv2rgb_coeffs" \in exec.built
        /\ EffInRng = AVCOL_RANGE_UNSPECIFIED) =>
          /\ s.yuv_offset[1] = 16 * 2 ^ (InDesc.depth - 8)
          /\ s.in_y_rng = 219 * 2 ^ (InDesc.depth - 8)
          /\ s.in_uv_rng = 224 * 2 ^ (InDesc.depth - 8)
    /\ warnings <= 1

\* a second frame of unspecified range, converted without a second warning
C12_Witness ==
    /\ in_frame # NULL
    /\ ret = 0
    /\ EffInRng = AVCOL_RANGE_UNSPECIFIED
    /\ \E r \in exec.ranges : r.rng = AVCOL_RANGE_UNSPECIFIED /\ r.res = 0
    /\ exec.warns = 0
    /\ warnings = 1

\* C13: whenever create_filtergraph returns an error for a frame, no slice
\* job is dispatched, no frame copy is made, no output frame is forwarded,
\* and filter_frame returns that error.
C13_ErrorsPrecedePixelWork ==
    (in_frame # NULL /\ exec.cfg = "failed") =>
        /\ exec.cfg_res < 0
        /\ ret = exec.cfg_res
        /\ exec.fn = "none"
        /\ exec.n_jobs = 0
        /\ exec.stages = <<>>
        /\ ~exec.forwarded
        /\ out_frame = NULL

\* a LUT allocation failed inside create_filtergraph
C13_Witness ==
    /\ in_frame # NULL
    /\ exec.cfg = "failed"
    /\ ret = AVERROR(ENOMEM)
    /\ ~s.rgb2rgb_passthrough
    /\ s.lin_lut = NULL
    /\ ~exec.forwarded

\* the formats the filter supports: planar YUV of 8, 10 or 12 bits with
\* 4:4:4, 4:2:2 or 4:2:0 subsampling, or float GBR of 16 or 32 bits
IsSupported(d) ==
    \/ /\ ~d.rgb
       /\ ~d.float
       /\ d.depth \in {8, 10, 12}
       /\ <<d.log2_chroma_w, d.log2_chroma_h>> \in {<<0, 0>>, <<1, 0>>, <<1, 1>>}
    \/ /\ d.rgb
       /\ d.float
       /\ d.depth \in {16, 32}

\* C14: a frame that create_filtergraph accepts has input and output formats
\* that are both RGB or both not, each of them a supported format; and for
\* an accepted frame that is not RGB the indices (depth - 8) >> 1 and
\* log2_chroma_h + log2_chroma_w of both sides are in {0, 1, 2}.
C14_FormatGate ==
    (in_frame # NULL /\ exec.cfg = "ok") =>
        /\ InDesc.rgb = OutDesc.rgb
        /\ IsSupported(InDesc)
        /\ IsSupported(OutDesc)
        /\ ~InDesc.rgb =>
              /\ (InDesc.depth - 8) \div 2 \in 0 .. 2
              /\ (OutDesc.depth - 8) \div 2 \in 0 .. 2
              /\ InDesc.log2_chroma_h + InDesc.log2_chroma_w \in 0 .. 2
              /\ OutDesc.log2_chroma_h + OutDesc.log2_chroma_w \in 0 .. 2

\* the size of the input link has an odd side
OddSize == link.inlink.w % 2 # 0 \/ link.inlink.h % 2 # 0

\* C15: config_props fails when the input link's width or height is odd and
\* otherwise gives the output link the input link's width and height; no
\* frame is handled on a link it refused, and every frame the slice kernels
\* are run on has an even width and an even height.
C15_EvenDimensions ==
    /\ OddSize => (~link.configured /\ in_frame = NULL)
    /\ ret = AVERROR_PATCHWELCOME => OddSize
    /\ link.configured => (link.w = link.inlink.w /\ link.h = link.inlink.h)
    /\ in_frame # NULL => link.configured
    /\ exec.n_jobs > 0 => (in_frame.width % 2 = 0 /\ in_frame.height % 2 = 0)

C15_Witness ==
    /\ link.inlink.w % 2 = 0
    /\ link.inlink.h % 2 # 0
    /\ ~link.configured
    /\ ret = AVERROR_PATCHWELCOME
    /\ in_frame = NULL

\* C17: every call of filter_frame releases the input frame exactly once;
\* it either forwards the output frame downstream, and then does not
\* release it, or returns an error, forwards nothing and has released the
\* output frame exactly once when it had obtained one.
C17_OneInOneOut ==
    in_frame # NULL =>
        /\ exec.in_freed = 1
        /\ exec.forwarded =>
              /\ exec.out_alloc
              /\ exec.out_freed = 0
              /\ out_frame # NULL
        /\ ~exec.forwarded =>
              /\ ret < 0
              /\ out_frame = NULL
              /\ exec.out_freed = (IF exec.out_alloc THEN 1 ELSE 0)

\* the scratch buffers could not be allocated
C17_Witness ==
    /\ in_frame # NULL
    /\ ret = AVERROR(ENOMEM)
    /\ exec.out_alloc
    /\ exec.cfg = "none"
    /\ s.rgb = NULL
    /\ s.rgb_sz = 0
    /\ exec.in_freed = 1
    /\ exec.out_freed = 1
    /\ ~exec.forwarded

\* the half-float table fill_gamma_table_f16 builds from the effective input
\* transfer and the output transfer of the handled frame
CurrentHalfLut ==
    [kind |-> "half",
     lin |-> get_transfer_characteristics(EffInTrc),
     delin |-> IF get_transfer_characteristics(out_frame.color_trc) # NULL
               THEN get_transfer_characteristics(out_frame.color_trc)
               ELSE avpriv_get_trc_function_from_trc(out_frame.color_trc)]

\* C18: whenever convert_f16 is dispatched for a frame, every LUT its
\* apply_lut_f16 passes read is an allocated table (not NULL, not freed)
\* built by fill_gamma_table_f16 from the current effective input and output
\* transfers, also when rgb2rgb_passthrough is set and yuv2yuv_passthrough
\* is not.
C18_HalfLutValid ==
    (Handled /\ exec.fn = "convert_f16") =>
        \A k \in DOMAIN exec.stages :
            exec.stages[k].op \in {"apply_lut_f16:lin", "apply_lut_f16:delin"}
                => exec.stages[k].tbl = CurrentHalfLut

\* the conditions create_filtergraph's flags stand for, from the effective
\* tags of the handled frame and the formats of the links
SamePrimaries ==
    av_csp_primaries_desc_from_id(EffInPrm)
        = av_csp_primaries_desc_from_id(out_frame.color_primaries)

SameParametricTransfer ==
    /\ get_transfer_characteristics(out_frame.color_trc) # NULL
    /\ get_transfer_characteristics(EffInTrc)
           = get_transfer_characteristics(out_frame.color_trc)

SameSubsampling ==
    /\ InDesc.log2_chroma_w = OutDesc.log2_chroma_w
    /\ InDesc.log2_chroma_h = OutDesc.log2_chroma_h

\* C19: after every successful create_filtergraph, whatever frames came
\* before, lrgb2lrgb_passthrough holds iff the effective input and output
\* primaries descriptors are identical; rgb2rgb_passthrough iff fast mode is
\* on or lrgb2lrgb_passthrough holds, the output transfer is parametric and
\* equals the input's; yuv2yuv_fastmode iff rgb2rgb_passthrough and the
\* subsamplings are equal; yuv2yuv_passthrough iff yuv2yuv_fastmode and the
\* ranges, luma coefficients and bit depths are equal.
C19_PassthroughFlags ==
    (in_frame # NULL /\ exec.cfg = "ok" /\ out_frame # NULL) =>
        /\ s.lrgb2lrgb_passthrough <=> SamePrimaries
        /\ s.rgb2rgb_passthrough <=>
               (s.fast_mode \/ (SamePrimaries /\ SameParametricTransfer))
        /\ s.yuv2yuv_fastmode <=> (s.rgb2rgb_passthrough /\ SameSubsampling)
        /\ s.yuv2yuv_passthrough <=>
               /\ s.yuv2yuv_fastmode
               /\ EffInRng = out_frame.color_range
               /\ s.in_rng = s.out_rng
               /\ av_csp_luma_coeffs_from_avcsp(EffInCsp)
                      = av_csp_luma_coeffs_from_avcsp(out_frame.colorspace)
               /\ InDesc.depth = OutDesc.depth

\* a frame whose own primaries and transfer equal the output's, after a
\* frame that was converted, on links of differing subsampling
C19_Witness ==
    /\ in_frame # NULL
    /\ exec.cfg = "ok"
    /\ out_frame # NULL
    /\ ~s.fast_mode
    /\ s.user_iprm = AVCOL_PRI_UNSPECIFIED
    /\ s.user_iall = CS_UNSPECIFIED
    /\ s.lrgb2lrgb_passthrough
    /\ s.rgb2rgb_passthrough
    /\ ~SameSubsampling
    /\ ~s.yuv2yuv_fastmode
    /\ warnings = 1

\* the kernels the slice jobs of the handled frame ran, in order
StageOps == [k \in DOMAIN exec.stages |-> exec.stages[k].op]

LastKernel == IF s.dither = DITHER_FSB THEN "rgb2yuv_fsb" ELSE "rgb2yuv"

\* C20 as stated: the linearize LUT only if rgb2rgb_passthrough is clear,
\* multiply3x3 only if lrgb2lrgb_passthrough is clear, and the delinearize
\* LUT in every job that is not the fused one.
C20_KernelOrderDelinAlways ==
    (Handled /\ exec.fn = "convert") =>
        StageOps = IF s.yuv2yuv_fastmode THEN <<"yuv2yuv">>
                   ELSE <<"yuv2rgb">>
                        \o (IF s.rgb2rgb_passthrough THEN <<>>
                            ELSE <<"apply_lut:lin">>)
                        \o (IF s.lrgb2lrgb_passthrough THEN <<>>
                            ELSE <<"multiply3x3">>)
                        \o <<"apply_lut:delin">>
                        \o <<LastKernel>>

\* C20: in every integer slice job the fused yuv2yuv kernel runs exactly
\* when yuv2yuv_fastmode is set, and alone; otherwise yuv2rgb runs first,
\* then, only if rgb2rgb_passthrough is clear, the linearize LUT, multiply3x3
\* (only if lrgb2lrgb_passthrough is clear too) and the delinearize LUT, and
\* last exactly one of rgb2yuv_fsb (dither=fsb) and rgb2yuv.
C20_KernelOrder ==
    (Handled /\ exec.fn = "convert") =>
        StageOps = IF s.yuv2yuv_fastmode THEN <<"yuv2yuv">>
                   ELSE <<"yuv2rgb">>
                        \o (IF s.rgb2rgb_passthrough THEN <<>>
                            ELSE <<"apply_lut:lin">>
                                 \o (IF s.lrgb2lrgb_passthrough THEN <<>>
                                     ELSE <<"multiply3x3">>)
                                 \o <<"apply_lut:delin">>)
                        \o <<LastKernel>>

C20_Witness ==
    /\ Handled
    /\ exec.fn = "convert"
    /\ ~s.yuv2yuv_fastmode
    /\ ~s.rgb2rgb_passthrough
    /\ ~s.lrgb2lrgb_passthrough
    /\ s.dither = DITHER_FSB
    /\ StageOps = <<"yuv2rgb", "apply_lut:lin", "multiply3x3",
                    "apply_lut:delin", "rgb2yuv_fsb">>

\* the luma rows h1 .. h2 - 1 of a job
JobRows(j) == jobs[j].rows.h1 .. jobs[j].rows.h2 - 1

\* C21: for every even height H >= 2 and worker count T >= 1 the frame is
\* run as n = min(H/2, T) jobs, the job j on the luma rows from
\* 2*floor(j*(H/2)/n) up to 2*floor((j+1)*(H/2)/n); these spans are
\* non-empty, start on an even row, have an even length, are pairwise
\* disjoint and together are the rows 0 .. H - 1, and the rows a job writes
\* in a plane of s->rgb end inside the plane.
C21_SlicePartition ==
    (Handled /\ exec.fn = "convert") =>
        LET H == in_frame.height
            n == Len(jobs)
        IN /\ n = exec.n_jobs
           /\ n = IF H \div 2 < link.nb_threads THEN H \div 2 ELSE link.nb_threads
           /\ \A j \in 1 .. n :
                 /\ jobs[j].rows.h1 = 2 * (((j - 1) * (H \div 2)) \div n)
                 /\ jobs[j].rows.h2 = 2 * ((j * (H \div 2)) \div n)
                 /\ JobRows(j) # {}
                 /\ jobs[j].rows.h1 % 2 = 0
                 /\ (jobs[j].rows.h2 - jobs[j].rows.h1) % 2 = 0
                 /\ s.rgb_stride * jobs[j].rows.h2 <= s.rgb.size
           /\ \A i, j \in 1 .. n : i # j => JobRows(i) \cap JobRows(j) = {}
           /\ UNION {JobRows(j) : j \in 1 .. n} = 0 .. H - 1

\* three jobs of unequal spans on a frame of 8 rows, all returned
C21_Witness ==
    /\ Handled
    /\ exec.fn = "convert"
    /\ in_frame.height = 8
    /\ Len(jobs) = 3
    /\ jobs[2].rows = [h1 |-> 2, h2 |-> 4]
    /\ jobs[3].rows = [h1 |-> 4, h2 |-> 8]
    /\ \A j \in DOMAIN jobs : jobs[j].pc > Len(exec.stages)

\* C22: whatever frames of whatever sizes came before, once filter_frame has
\* passed its allocation step for a frame, each plane of s->rgb holds at
\* least stride * height bytes for that frame, each luma row of the dither
\* scratch at least width + 4 ints and each chroma row at least
\* chroma_width + 4 ints.
C22_ScratchCapacity ==
    (in_frame # NULL /\ ret = 0) =>
        /\ s.rgb # NULL
        /\ s.rgb.size >= FFALIGN(in_frame.width * 2, 32) * in_frame.height
        /\ s.dither_scratch # NULL
        /\ s.dither_scratch.luma >= in_frame.width + 4
        /\ s.dither_scratch.chroma >=
               in_frame.width \div Shl(OutDesc.log2_chroma_w) + 4

\* the allocations of the filter, by the call that failed
AllocFaults == {"scratch", "lin_lut", "f2h_tbl", "h2f_tbl"}

\* what every failed allocation leaves: ENOMEM is returned; after a failed
\* scratch allocation the instance owns no scratch buffer and rgb_sz is 0;
\* after a failed LUT allocation it owns no LUT
AllocFailureLeaves ==
    /\ ret = AVERROR(ENOMEM)
    /\ exec.fault = "scratch" =>
          /\ s.rgb = NULL
          /\ s.dither_scratch = NULL
          /\ s.rgb_sz = 0
    /\ exec.fault = "lin_lut" => s.lin_lut = NULL

\* C23 as stated: when an allocation fails the call returns ENOMEM and the
\* instance owns no buffer of the group the allocation belongs to, of the
\* two half-float tables too; after a scratch failure rgb_sz is 0.
C23_NoPartialGroup ==
    (in_frame # NULL /\ exec.fault \in AllocFaults) =>
        /\ AllocFailureLeaves
        /\ exec.fault \in {"f2h_tbl", "h2f_tbl"} =>
              s.f2h_tbl = NULL /\ s.h2f_tbl = NULL

\* C23: when an allocation fails the call returns ENOMEM; the instance then
\* owns no scratch buffer (and rgb_sz is 0) after a scratch failure and no
\* LUT after a LUT failure, and the half-float table whose allocation failed
\* is NULL, while a float-to-half table allocated before the half-to-float
\* one failed stays with the instance.
C23_AllocationFailureCleanup ==
    (in_frame # NULL /\ exec.fault \in AllocFaults) =>
        /\ AllocFailureLeaves
        /\ exec.fault = "f2h_tbl" => s.f2h_tbl = NULL
        /\ exec.fault = "h2f_tbl" =>
              s.h2f_tbl = NULL /\ s.f2h_tbl = [tables |-> "float2half"]

\* the allocation of the half-to-float table fails on an instance whose
\* scratch buffers and float-to-half table were allocated for this frame
C23_Witness ==
    /\ in_frame # NULL
    /\ exec.fault = "h2f_tbl"
    /\ ret = AVERROR(ENOMEM)
    /\ s.h2f_tbl = NULL
    /\ s.f2h_tbl # NULL
    /\ s.rgb # NULL
    /\ s.rgb_sz > 0

\* C24: every time a coefficient table is built, its entries have the
\* structure the kernels rely on: yuv2rgb_coeffs[0][1] and [2][2] are 0 and
\* its column 0 is one value; rgb2yuv_coeffs[1][2] equals [2][0];
\* yuv2yuv_coeffs[1][0] and [2][0] are 0; and the 8 lanes of every
\* coefficient hold one value.
C24_CoefficientInvariants ==
    /\ "yuv2rgb_coeffs" \in exec.built =>
          \A c \in {yuv2rgb_coeffs(s.yuv2rgb_coeffs)} :
             /\ \A o \in 0 .. 7 :
                   /\ c[0][1][o] = 0
                   /\ c[2][2][o] = 0
                   /\ c[0][0][o] = c[1][0][o]
                   /\ c[0][0][o] = c[2][0][o]
             /\ \A n \in 0 .. 2, m \in 0 .. 2, o \in 1 .. 7 :
                   c[n][m][o] = c[n][m][0]
    /\ "rgb2yuv_coeffs" \in exec.built =>
          \A c \in {rgb2yuv_coeffs(s.rgb2yuv_coeffs)} :
             /\ \A o \in 0 .. 7 : c[1][2][o] = c[2][0][o]
             /\ \A n \in 0 .. 2, m \in 0 .. 2, o \in 1 .. 7 :
                   c[n][m][o] = c[n][m][0]
    /\ "yuv2yuv_coeffs" \in exec.built =>
          \A m \in 1 .. 2 :
             \A c \in {yuv2yuv_coeffs(s.yuv2yuv_coeffs, m, 0)} :
                \A o \in 0 .. 7 : c[o] = 0

\* a frame of one matrix, range and depth converted to another: the three
\* tables are built, with different widths for luma and chroma
C24_Witness ==
    /\ {"yuv2rgb_coeffs", "rgb2yuv_coeffs", "yuv2yuv_coeffs"} \subseteq exec.built
    /\ s.in_lumacoef # s.out_lumacoef
    /\ s.in_rng = AVCOL_RANGE_JPEG
    /\ s.out_rng = AVCOL_RANGE_MPEG
    /\ link.in_format = "yuv420p10"
    /\ link.out_format = "yuv420p"
    /\ yuv2rgb_coeffs(s.yuv2rgb_coeffs)[0][0][0] = 14350
    /\ rgb2yuv_coeffs(s.rgb2yuv_coeffs)[1][2][0] = 8192
    /\ yuv2yuv_coeffs(s.yuv2yuv_coeffs, 0, 0)[0] > 0

\* C25: when the linear RGB matrix is built (the primaries differ), the
\* chromatic adaptation matrix is composed into it iff the whitepoints of
\* the frame's primaries and of the output primaries differ and wpadapt is
\* not identity; with wpadapt=identity the matrix is rgb2xyz(in) combined
\* with xyz2rgb(out) only; and fill_whitepoint_conv_table is only ever
\* called with an index inside its table of cone matrices.
C25_WhitepointAdaptation ==
    (Handled /\ "lrgb2lrgb_coeffs" \in exec.built) =>
       \A pin \in {av_csp_primaries_desc_from_id(EffInPrm)},
          pout \in {av_csp_primaries_desc_from_id(out_frame.color_primaries)} :
          /\ pin # pout
          /\ Len(s.lrgb2lrgb_coeffs.wpconv) = 1
                <=> (pin.wp # pout.wp /\ s.wp_adapt # WP_ADAPT_IDENTITY)
          /\ s.wp_adapt = WP_ADAPT_IDENTITY =>
                s.lrgb2lrgb_coeffs
                  = [rgb2xyz |-> pin, xyz2rgb |-> pout, wpconv |-> <<>>]
          /\ \A i \in DOMAIN s.lrgb2lrgb_coeffs.wpconv :
                /\ s.lrgb2lrgb_coeffs.wpconv[i].ma_tbl \in
                      0 .. NB_WP_ADAPT_NON_IDENTITY - 1
                /\ s.lrgb2lrgb_coeffs.wpconv[i].wp_src = pin.wp
                /\ s.lrgb2lrgb_coeffs.wpconv[i].wp_dst = pout.wp

\* a BT.470M frame (illuminant C) converted to BT.709 (D65) with
\* wpadapt=identity: the matrix is built without an adaptation
C25_Witness ==
    /\ Handled
    /\ "lrgb2lrgb_coeffs" \in exec.built
    /\ s.wp_adapt = WP_ADAPT_IDENTITY
    /\ in_frame.color_primaries = AVCOL_PRI_BT470M
    /\ out_frame.color_primaries = AVCOL_PRI_BT709
    /\ s.in_primaries.wp # s.out_primaries.wp
    /\ s.lrgb2lrgb_coeffs.wpconv = <<>>

\* the four passthrough flags of a context
PassthroughFlags(s0) ==
    <<s0.lrgb2lrgb_passthrough, s0.rgb2rgb_passthrough, s0.yuv2yuv_fastmode,
      s0.yuv2yuv_passthrough>>

\* C26: a frame whose range is not tagged (and not overridden) and whose
\* output range is limited leaves the same passthrough flags as the same
\* frame tagged limited would have left.
C26_UnspecifiedRangeAsLimited ==
    [][(/\ ret' = 0
        /\ s.user_irng = AVCOL_RANGE_UNSPECIFIED
        /\ in_frame'.color_range = AVCOL_RANGE_UNSPECIFIED
        /\ out_frame'.color_range = AVCOL_RANGE_MPEG)
       => PassthroughFlags(s')
            = PassthroughFlags(
                 filter_frame(s, link,
                              [in_frame' EXCEPT !.color_range = AVCOL_RANGE_MPEG],
                              "none").s)]_vars

\* C27: for every int16 sample v the index apply_lut reads lies in
\* [0, 32767]: it is 2048 + v when that is in range, 0 when v < -2048 and
\* 32767 when v > 30719, so every read is inside the 32768-entry table.
C27_LutIndexBound ==
    \A j \in DOMAIN jobs :
       jobs[j].pc = 1 =>
          /\ jobs[j].index \in 0 .. LutSize - 1
          /\ jobs[j].index \in 0 .. 32767
          /\ (2048 + jobs[j].data \in 0 .. 32767)
                => jobs[j].index = 2048 + jobs[j].data
          /\ jobs[j].data < -2048 => jobs[j].index = 0
          /\ jobs[j].data > 30719 => jobs[j].index = 32767

\* the smallest sample is read at index 0
C27_Witness ==
    /\ Len(jobs) = 1
    /\ jobs[1].pc = 1
    /\ jobs[1].data = -32768
    /\ jobs[1].index = 0

\* C28: rgba_to_packed_rgba from a source with alpha to a destination
\* without, whatever the swap mode: the three components of destination
\* pixel x are converted from the first three components of source pixel x.
C28_PackedAlphaDropped ==
    (exec.fn = "rgba_to_packed_rgba" /\ link.src_alpha /\ ~link.dst_alpha) =>
       \A h \in 1 .. link.srcSliceH, x \in 0 .. link.width - 1, m \in 1 .. 3 :
          out_frame.data[h][3 * x + packed_order(link.order)[m] + 1]
            = swap_output(link, in_frame.data[h][4 * x + m])

\* the alpha samples of the converted image, row by row
DstAlpha ==
    IF out_frame.layout = "planar" THEN out_frame.data[4]
    ELSE [h \in 1 .. link.srcSliceH |->
            [x \in 1 .. link.width |-> out_frame.data[h][4 * x]]]

\* the alpha samples of the source image, row by row
SrcAlpha ==
    IF in_frame.layout = "planar" THEN in_frame.data[4]
    ELSE [h \in 1 .. link.srcSliceH |->
            [x \in 1 .. link.width |-> in_frame.data[h][4 * x]]]

\* the opaque sample of the destination: all ones in dst_bpp bits, 1.0 as
\* a half, 1.0 as a float
Opaque ==
    CASE link.dst_kind = "f16" -> 15360
      [] link.dst_kind = "f32" -> 1065353216
      [] OTHER                 -> 2 ^ link.dst_bpp - 1

\* C30: in each of the four converters, when the destination has alpha and
\* the source has none every destination alpha sample of every row is the
\* opaque constant, byte-swapped iff swap >= 2; when both have alpha the
\* destination alpha is the converted source alpha.
C30_OpaqueAlpha ==
    (out_frame # NULL /\ link.dst_alpha) =>
       \A h \in 1 .. link.srcSliceH, x \in 1 .. link.width :
          IF link.src_alpha
          THEN DstAlpha[h][x] = swap_output(link, SrcAlpha[h][x])
          ELSE DstAlpha[h][x]
                 = [bits |-> IF link.swap >= 2
                             THEN (IF link.dst_kind = "f32"
                                   THEN av_bswap32(Opaque)
                                   ELSE av_bswap16(Opaque))
                             ELSE Opaque]

\* a 10-bit planar image without alpha packed with swapped bytes: the
\* alpha of the second pixel of the second row is 0x03ff stored as 0xff03
C30_Witness ==
    /\ out_frame # NULL
    /\ exec.fn = "gbrap_to_packed_rgba"
    /\ link.dst_alpha
    /\ ~link.src_alpha
    /\ link.swap = 2
    /\ link.dst_kind = "16"
    /\ link.dst_bpp = 10
    /\ link.width = 2
    /\ link.srcSliceH = 2
    /\ out_frame.data[2][8] = [bits |-> 65283]

\* C29: with the bit-replication requantiser, for depths 8 <= s <= d <= 16
\* and every x of s bits, x converted to d bits and back to s bits is x;
\* 0 maps to 0 and 2^s - 1 to 2^d - 1, the map is monotone non-decreasing,
\* and it is the identity when s = d.
C29_DepthRoundTrip ==
    \A j \in DOMAIN jobs :
       /\ jobs[j].pc >= 1 =>
             /\ jobs[j].x = 0 => jobs[j].y = 0
             /\ jobs[j].x = 2 ^ link.src_bpp - 1 => jobs[j].y = 2 ^ link.dst_bpp - 1
             /\ jobs[j].x < 2 ^ link.src_bpp - 1 =>
                   jobs[j].y <= INPUT_UINT(jobs[j].x + 1, link.src_bpp, link.dst_bpp)
             /\ link.src_bpp = link.dst_bpp => jobs[j].y = jobs[j].x
       /\ jobs[j].pc = 2 => jobs[j].z = jobs[j].x

\* the largest 10-bit sample becomes the largest 12-bit sample and comes
\* back
C29_Witness ==
    /\ Len(jobs) = 1
    /\ jobs[1].pc = 2
    /\ link.src_bpp = 10
    /\ link.dst_bpp = 12
    /\ jobs[1].x = 1023
    /\ jobs[1].y = 4095
    /\ jobs[1].z = 1023

====
